---- MODULE Spec2Model ----
(***************************************************************************)
(* The workflow execution engine of app/workflows/engine.py: the graph     *)
(* kept by WorkflowEngine.__init__, the Kahn ordering of                   *)
(* _topological_sort, the main loop of run (skip / execute / record /      *)
(* prune / stop), the context assembly of _gather_context, the branch      *)
(* pruner (_get_skipped_branches, _get_all_descendants) and the record     *)
(* built by _build_result.  Agents are modelled by the results their run   *)
(* methods can return (app/agents/*.py) and the registry by get_agent.     *)
(* Two agents are modelled step by step: CodeExecAgent.run, called by the  *)
(* threads of one process (SpecExec), and APICallAgent.run with the        *)
(* headers object it shares with the node's config (SpecApi).  SpecReuse   *)
(* calls run twice on one engine object, SpecAgain runs a graph twice with *)
(* a new engine each time, SpecCancel adds a caller that asks for          *)
(* cancellation, SpecSort checks the ordering alone.  SpecInputNode runs   *)
(* graphs that have a node whose id is "input".  ConditionalAgent.run and  *)
(* DataTransformAgent.run are computed on Python values (SpecConditional,  *)
(* SpecTransform), and SpecResolve computes the agent kind and the config  *)
(* of a node from the node and the store of agent definitions.             *)
(* SpecTerminates runs graphs with cycles, self-loops and repeated edges   *)
(* under fairness, and SpecGate the handlers of concurrent run_workflow    *)
(* requests around the engine (routers/workflow_router.py, auth.py).       *)
(***************************************************************************)
EXTENDS Integers, Sequences, FiniteSets, TLC

VARIABLES
    graph,            \* the graph dict handed to __init__: [nodes, edges]
    nodes,            \* self.nodes: node id -> node record (a dict)
    node_keys,        \* insertion order of the keys of self.nodes
    edges,            \* self.edges
    results,          \* self.results: node id -> result record (a dict)
    result_keys,      \* insertion order of the keys of self.results
    total_tokens,     \* self.total_tokens
    total_cost,       \* self.total_cost, in CostUnit-ths of a dollar
    pc,               \* "idle" | "loop" | "call" | "done" | "raised"
    input_data,       \* the input_data argument of the current run
    execution_order,  \* the local execution_order of run
    pos,              \* position of the for loop in execution_order
    skipped_nodes,    \* the local skipped_nodes of run
    context_store,    \* the local context_store of run
    contexts,         \* node id -> the upstream_context its agent was run with
    processed,        \* node ids the loop of the current run has handled, in order
    ret,              \* the value run returned, or the exception it let through
    runs,             \* number of calls of run on this engine object
    executing,        \* node ids whose agent.run was called and has not returned
    cancel,           \* the caller's cancellation signal: raised or not, and the
                      \* number of agent calls begun when it was raised
    sys_stdout,       \* sys.stdout of the process: the stream installed
    sys_stderr,       \* sys.stderr of the process
    written,          \* stream -> the threads whose prints it received, in order
    threads,          \* thread -> the state of its call of CodeExecAgent.run
    decided,          \* <<node id, context>> -> the result the node's agent, a pure
                      \* function of its config and context, returned for it
    earlier,          \* what the run of an earlier engine on the same graph gave
    call,             \* a call of an agent's run on a config and a context: where
                      \* it stands and how it ended
    runs_this_month,  \* the user's runs_this_month column, as committed
    handlers,         \* request -> where its run_workflow handler stands, and the
                      \* runs_this_month of the User object of its session
    objects,          \* the dict objects a headers name can refer to: the mapping
                      \* inside the node's config, and a dict made by the agent
    api               \* the state of a call of APICallAgent.run by the engine

vars == <<graph, nodes, node_keys, edges, results, result_keys, total_tokens,
          total_cost, pc, input_data, execution_order, pos, skipped_nodes,
          context_store, contexts, processed, ret, runs, executing, cancel,
          sys_stdout, sys_stderr, written, threads, decided, earlier,
          objects, api, call, runs_this_month, handlers>>

\* the fields of an engine object and the locals of its run
engine == <<graph, nodes, node_keys, edges, results, result_keys, total_tokens,
            total_cost, pc, input_data, execution_order, pos, skipped_nodes,
            context_store, contexts, processed, ret, runs, executing>>

\* the process-wide streams and the threads that run code_exec agents
process == <<sys_stdout, sys_stderr, written, threads>>

\* what lies outside an engine object and its run: no step of run reads or
\* writes it
\* the headers objects and the call of an api_call agent
request == <<objects, api>>

\* the user's row and the request handlers around the engine
gate == <<runs_this_month, handlers>>

outside == <<cancel, process, earlier, request, call, gate>>

-----------------------------------------------------------------------------
(* Bounds of the model                                                     *)

\* the node ids of the graphs; an engine's graph lists at most Len(NodeNames) nodes
NodeNames == <<"A", "B", "C">>
\* an id that no node of a graph carries
UnknownId == "X"

\* edges a graph may have besides its forward edges (see ExtraEdges)
MaxExtraEdges == 1
\* length of the edge lists the ordering alone is checked on (see InitSort)
MaxSortEdges == 3
\* calls of run on one engine object (see SpecReuse)
MaxRuns == 2

\* costs are counted in units of 10^-8 dollars: the finest rate of
\* LLMAgent._estimate_cost is 0.00000015 dollars per token

-----------------------------------------------------------------------------
(* Generic helpers                                                         *)

Range(s) == {s[i] : i \in DOMAIN s}

SeqsUpTo(S, n) == UNION {[1..k -> S] : k \in 0..n}

NoDuplicates(s) == \A i, j \in DOMAIN s : i # j => s[i] # s[j]

RECURSIVE SumOver(_, _)
SumOver(S, f) ==
    IF S = {} THEN 0
    ELSE LET x == CHOOSE y \in S : TRUE IN f[x] + SumOver(S \ {x}, f)

-----------------------------------------------------------------------------
(* WorkflowEngine.__init__                                                 *)

\* keys of {n["id"]: n for n in graph["nodes"]} in insertion order: a key keeps
\* the place of its first occurrence
RECURSIVE DictKeys(_)
DictKeys(node_list) ==
    IF node_list = <<>> THEN <<>>
    ELSE LET front == DictKeys(SubSeq(node_list, 1, Len(node_list) - 1))
             last == node_list[Len(node_list)].id
         IN IF last \in Range(front) THEN front ELSE Append(front, last)

\* values of the same dict: a later node with the same id replaces the earlier
DictOfNodes(node_list) ==
    [id \in {node_list[i].id : i \in DOMAIN node_list} |->
        LET last == CHOOSE i \in DOMAIN node_list :
                        /\ node_list[i].id = id
                        /\ \A j \in DOMAIN node_list : node_list[j].id = id => j <= i
        IN node_list[last]]

-----------------------------------------------------------------------------
(* WorkflowEngine._topological_sort                                        *)

EdgeIds(es) == {es[k].source_id : k \in DOMAIN es} \cup {es[k].target_id : k \in DOMAIN es}

\* an in_degree that counts no edge
InDegreeZero(keys, es) == [id \in Range(keys) \cup EdgeIds(es) |-> 0]

\* in_degree after the two for loops: a defaultdict, so ids that only occur as a
\* target_id get an entry as well
InDegree(keys, es) ==
    [id \in Range(keys) \cup EdgeIds(es) |->
        Cardinality({k \in DOMAIN es : es[k].target_id = id})]

\* the targets of src's edges, the last edge first
RECURSIVE AdjacentReversed(_, _)
AdjacentReversed(es, src) ==
    IF es = <<>> THEN <<>>
    ELSE IF Head(es).source_id = src
         THEN AdjacentReversed(Tail(es), src) \o <<Head(es).target_id>>
         ELSE AdjacentReversed(Tail(es), src)

\* adjacency[src]: the targets of src's edges, in edge order
RECURSIVE Adjacent(_, _)
Adjacent(es, src) ==
    IF es = <<>> THEN <<>>
    ELSE IF Head(es).source_id = src
         THEN <<Head(es).target_id>> \o Adjacent(Tail(es), src)
         ELSE Adjacent(Tail(es), src)

\* a queue that starts with every node, whatever its in-degree
InitialQueueAll(keys, in_degree) == keys

\* deque([n for n in self.nodes if in_degree[n] == 0])
InitialQueue(keys, in_degree) == SelectSeq(keys, LAMBDA n : in_degree[n] = 0)

\* a neighbor joins the queue already when one incoming edge is still to come,
\* and again when none is
ReadyEarly(degree) == degree \in {0, 1}

\* the condition under which a neighbor joins the queue (line 133)
Ready(degree) == degree = 0

\* the inner for loop over adjacency[node]
RECURSIVE Relax(_, _, _)
Relax(in_degree, queue, neighbors) ==
    IF neighbors = <<>> THEN <<in_degree, queue>>
    ELSE LET neighbor == Head(neighbors)
             d == in_degree[neighbor] - 1
         IN Relax([in_degree EXCEPT ![neighbor] = d],
                  IF Ready(d) THEN Append(queue, neighbor) ELSE queue,
                  Tail(neighbors))

\* the while loop
RECURSIVE KahnLoop(_, _, _, _)
KahnLoop(es, in_degree, queue, order) ==
    IF queue = <<>> THEN order
    ELSE LET node == Head(queue)
             r == Relax(in_degree, Tail(queue), Adjacent(es, node))
         IN KahnLoop(es, r[1], r[2], Append(order, node))

topological_sort(keys, es) ==
    LET in_degree == InDegree(keys, es)
    IN KahnLoop(es, in_degree, InitialQueue(keys, in_degree), <<>>)

-----------------------------------------------------------------------------
(* Python dicts                                                            *)

EmptyDict == [k \in {} |-> FALSE]

Put(d, k, v) == [x \in DOMAIN d \cup {k} |-> IF x = k THEN v ELSE d[x]]

\* insertion order after d[k] = v: a key already present keeps its place
PutKey(keys, k) == IF k \in Range(keys) THEN keys ELSE Append(keys, k)

-----------------------------------------------------------------------------
(* Values that flow through a run                                          *)

NoNode == "<none>"
NoCondition == "<missing>"

\* an agent output: a mapping (isdict) or anything else (a string, a list);
\* branch and condition_met are the entries of a conditional's mapping
OutText(t) == [isdict |-> FALSE, branch |-> "", text |-> t, wrapped |-> FALSE,
            condition_met |-> FALSE]

\* a mapping that names the other branch
OutBranchInverted(condition_met) ==
    [isdict |-> TRUE, branch |-> IF condition_met THEN "false" ELSE "true", text |-> "",
     wrapped |-> FALSE, condition_met |-> condition_met]

\* the mapping a conditional puts out (conditional_agent.py, lines 49-53):
\* condition_met, and the branch "true" if condition_met else "false"
OutBranch(condition_met) ==
    [isdict |-> TRUE, branch |-> IF condition_met THEN "true" ELSE "false", text |-> "",
     wrapped |-> FALSE, condition_met |-> condition_met]

OutNone == [isdict |-> FALSE, branch |-> "", text |-> "None", wrapped |-> FALSE,
            condition_met |-> FALSE]

\* the input payloads of a run: None and a non-empty mapping
NoInput == [isdict |-> FALSE, branch |-> "", text |-> "None", wrapped |-> FALSE,
            condition_met |-> FALSE]
Payload == [isdict |-> TRUE, branch |-> "", text |-> "payload", wrapped |-> FALSE,
            condition_met |-> FALSE]
InputPayloads == {NoInput, Payload}

\* Python truth of input_data (lines 44 and 143)
Truthy(inp) == inp # NoInput

\* the output stored as it is, a mapping or not
StoredAsIs(output) == output

\* result.output if isinstance(result.output, dict) else {"output": result.output}
Normalize(output) ==
    IF output.isdict THEN output
    ELSE [isdict |-> TRUE, branch |-> "", text |-> output.text, wrapped |-> TRUE,
            condition_met |-> FALSE]

-----------------------------------------------------------------------------
(* Agents: app/agents                                                      *)

AGENT_REGISTRY == {"llm", "web_search", "code_exec", "api_call", "data_transform", "conditional"}

\* rates of gpt-4o-mini (settings.DEFAULT_MODEL) in cost units per token
InputRate == 15
OutputRate == 60

estimate_cost(input_tokens, output_tokens) ==
    input_tokens * InputRate + output_tokens * OutputRate

\* the prompt and completion token counts the provider reports for a call
PromptTokens == 1
CompletionTokens == 1

\* a failure that still reports the tokens of the prompt it sent
FailureUsageCharged ==
    [tokens_used |-> PromptTokens, cost_usd |-> estimate_cost(PromptTokens, 0)]

\* what an agent reports with success=False: tokens_used and cost_usd keep the
\* defaults of AgentResult
FailureUsage == [tokens_used |-> 0, cost_usd |-> 0]

Failure(msg) ==
    [success |-> FALSE, output |-> OutText(msg),
     tokens_used |-> FailureUsage.tokens_used, cost_usd |-> FailureUsage.cost_usd]

Success(output, tokens, cost) ==
    [success |-> TRUE, output |-> output, tokens_used |-> tokens, cost_usd |-> cost]

LLMAgent_run ==
    {Success(OutText("answer"), PromptTokens + CompletionTokens,
             estimate_cost(PromptTokens, CompletionTokens)),
     Failure("LLM call failed")}

ConditionalAgent_run ==
    {Success(OutBranch(condition_met), 0, 0) : condition_met \in BOOLEAN}
    \cup {Failure("Condition evaluation failed")}

\* the results agent.run can return, by agent type
AgentRun(agent_type) ==
    CASE agent_type = "llm" -> LLMAgent_run
      [] agent_type = "conditional" -> ConditionalAgent_run
      [] OTHER -> {Success(OutText("output"), 0, 0), Failure("failed")}

\* an exception that leaves agent.run
Exception(what) == [raises |-> what]

IsException(outcome) == "raises" \in DOMAIN outcome

\* the exceptions agent.run lets through, by agent type: what an agent does
\* before its try block is not caught.  ConditionalAgent.run calls
\* self._extract(data, field) at line 33, whose field.split fails on a field
\* that is no string; APICallAgent.run calls upper, _interpolate and
\* headers.items at lines 14-25.  The other agents only read their config
\* outside the try block.
RunRaises(agent_type) ==
    IF agent_type \in {"conditional", "api_call"} THEN {Exception("AttributeError")} ELSE {}

\* the agents whose result is a function of their config and context alone
Deterministic(agent_type) == agent_type \in {"conditional", "data_transform"}

\* an agent whose result may change from one call to the next, whatever it is
OutcomesAnyTime(agent_type, node_id, context) ==
    AgentRun(agent_type) \cup RunRaises(agent_type)

\* the ways the call of a node's agent on a context can end, a result or an
\* exception: the way it ended for that context before, when the agent is
\* deterministic
Outcomes(agent_type, node_id, context) ==
    IF Deterministic(agent_type) /\ <<node_id, context>> \in DOMAIN decided
    THEN {decided[<<node_id, context>>]}
    ELSE AgentRun(agent_type) \cup RunRaises(agent_type)

\* get_agent raises ValueError for a type that is not registered
GetAgentRaises(agent_type) == agent_type \notin AGENT_REGISTRY

-----------------------------------------------------------------------------
(* WorkflowEngine._gather_context                                          *)

\* the context of a node: the input payload under "input" when it is truthy,
\* then the entry of the context store for the source of every incoming edge
\* that has one (a source named "input" would replace the payload)
\* a key for every source, None for one without an entry in the store
gather_context_every_source(node_id, store, inp) ==
    LET sources == {edges[k].source_id : k \in {j \in DOMAIN edges : edges[j].target_id = node_id}}
        keys == sources \cup (IF Truthy(inp) THEN {"input"} ELSE {})
    IN [k \in keys |-> IF k \in DOMAIN store THEN store[k]
                       ELSE IF k \in sources THEN OutNone ELSE inp]

\* lines 140-153
gather_context(node_id, store, inp) ==
    LET sources == {edges[k].source_id : k \in {j \in DOMAIN edges : edges[j].target_id = node_id}}
        present == {src \in sources : src \in DOMAIN store}
        keys == present \cup (IF Truthy(inp) THEN {"input"} ELSE {})
    IN [k \in keys |-> IF k \in present THEN store[k] ELSE inp]

-----------------------------------------------------------------------------
(* WorkflowEngine._get_all_descendants and _get_skipped_branches           *)

\* the for loop over self.edges for one dequeued node
RECURSIVE ScanEdges(_, _, _, _)
ScanEdges(es, current, queue, descendants) ==
    IF es = <<>> THEN <<queue, descendants>>
    ELSE LET e == Head(es)
         IN IF e.source_id = current /\ e.target_id \notin descendants
            THEN ScanEdges(Tail(es), current, Append(queue, e.target_id),
                           descendants \cup {e.target_id})
            ELSE ScanEdges(Tail(es), current, queue, descendants)

RECURSIVE DescendantsLoop(_, _, _)
DescendantsLoop(es, queue, descendants) ==
    IF queue = <<>> THEN descendants
    ELSE LET r == ScanEdges(es, Head(queue), Tail(queue), descendants)
         IN DescendantsLoop(es, r[1], r[2])

\* the targets of the node's own edges only: nothing is taken from the queue
\* after the node itself
get_children(es, node_id) == ScanEdges(es, node_id, <<>>, {})[2]

\* lines 169-177
get_all_descendants(es, node_id) == DescendantsLoop(es, <<node_id>>, {})

\* an edge with an empty condition read as an edge of the branch "true"
EdgeBranchEmptyIsTrue(e) == IF e.condition \in {NoCondition, ""} THEN "true" ELSE e.condition

\* edge.get("condition", "true")
EdgeBranch(e) == IF e.condition = NoCondition THEN "true" ELSE e.condition

\* line 164 left out: the target alone, without what lies behind it
SkippedBehindTargetOnly(es, target) == {target}

\* what one not-taken edge adds to the skip set (lines 163-164)
SkippedBehind(es, target) == {target} \cup get_all_descendants(es, target)

\* the comparison of line 161 turned around: the branch taken is the one skipped
NotTakenSwapped(e, taken_branch) == EdgeBranch(e) = taken_branch

\* an edge without a label is never pruned
NotTakenIfLabelled(e, taken_branch) == EdgeBranch(e) # taken_branch /\ e.condition # ""

\* line 161: the edge is not the branch taken
NotTaken(e, taken_branch) == EdgeBranch(e) # taken_branch

get_skipped_branches(es, conditional_node_id, taken_branch) ==
    UNION {SkippedBehind(es, es[k].target_id) :
              k \in {j \in DOMAIN es : /\ es[j].source_id = conditional_node_id
                                      /\ NotTaken(es[j], taken_branch)}}

-----------------------------------------------------------------------------
(* WorkflowEngine._build_result                                            *)

\* 10^-6 dollars, the precision of round(self.total_cost, 6), in cost units
RoundStep == 100

\* rounding up to the next multiple of 10^-6 dollars, always
RoundUp6(cost) == ((cost \div RoundStep) + 1) * RoundStep

\* round(x, 6) on cost units: to the nearest multiple of 10^-6 dollars, a tie
\* going to the even multiple
Round6(cost) ==
    LET step == RoundStep
        q == cost \div step
        r == cost % step
    IN IF 2 * r > step \/ (2 * r = step /\ q % 2 = 1) THEN (q + 1) * step ELSE q * step

\* the output of the last entry of self.results, whatever its status
LastRecordedOutput(res, keys) ==
    IF keys = <<>> THEN OutNone ELSE res[keys[Len(keys)]].output

\* the output of the last completed entry of self.results, walking backwards
RECURSIVE LastCompletedOutput(_, _)
LastCompletedOutput(res, keys) ==
    IF keys = <<>> THEN OutNone
    ELSE LET k == keys[Len(keys)]
         IN IF res[k].status = "completed" THEN res[k].output
            ELSE LastCompletedOutput(res, SubSeq(keys, 1, Len(keys) - 1))

\* a record that never names the node that stopped the run
build_result_unnamed(status, res, keys, tokens, cost, failed_node) ==
    [kind |-> "record",
     status |-> status,
     output_data |-> LastCompletedOutput(res, keys),
     total_tokens |-> tokens,
     total_cost_usd |-> Round6(cost),
     failed_node |-> NoNode]

\* lines 189-197
build_result(status, res, keys, tokens, cost, failed_node) ==
    [kind |-> "record",
     status |-> status,
     output_data |-> LastCompletedOutput(res, keys),
     total_tokens |-> tokens,
     total_cost_usd |-> Round6(cost),
     failed_node |-> failed_node]

NoReturn == [kind |-> "none", status |-> "", output_data |-> OutNone,
             total_tokens |-> 0, total_cost_usd |-> 0, failed_node |-> NoNode]

\* an exception that leaves run
Raised(what) == [kind |-> "exception", status |-> what, output_data |-> OutNone,
                 total_tokens |-> 0, total_cost_usd |-> 0, failed_node |-> NoNode]

-----------------------------------------------------------------------------------------------------------------------------------------------------
(* The graphs an engine is constructed with                                *)

AgentTypes == {"llm", "conditional", "bogus"}
Conditions == {"", "true", "false"}
Absent == "<absent>"

\* id lists of length n over the first names, a new name only after all the
\* names before it: every list of ids with repetitions, up to renaming
IdLists(n) ==
    {s \in [1..n -> 1..n] :
        \A i \in 1..n : \A v \in 1..(s[i] - 1) : \E j \in 1..(i - 1) : s[j] = v}

NodeList(ids, attrs) ==
    [i \in DOMAIN ids |-> [id |-> NodeNames[ids[i]],
                           agent_type |-> attrs[i][1],
                           stop_on_failure |-> attrs[i][2]]]

Edge(s, t, c) == [source_id |-> s, target_id |-> t, condition |-> c]

\* the pairs <<i, j>> over 1..k, row by row
AllPairs(k) == [p \in 1..(k * k) |-> <<((p - 1) \div k) + 1, ((p - 1) % k) + 1>>]

ForwardPairs(k) == SelectSeq(AllPairs(k), LAMBDA p : p[1] < p[2])

\* the edges chosen among the forward pairs of keys: choice gives each pair a
\* condition or leaves it out
RECURSIVE ForwardEdges(_, _, _)
ForwardEdges(keys, pairs, choice) ==
    IF pairs = <<>> THEN <<>>
    ELSE LET p == Head(pairs)
             rest == ForwardEdges(keys, Tail(pairs), choice)
         IN IF choice[p] = Absent THEN rest
            ELSE <<Edge(keys[p[1]], keys[p[2]], choice[p])>> \o rest

\* edges that break the graph invariants: backward edges, self-loops and edges
\* from or to an id that is no node
ExtraEdges(keys) ==
    LET k == Len(keys)
        back == SelectSeq(AllPairs(k), LAMBDA p : p[1] >= p[2])
    IN [i \in DOMAIN back |-> Edge(keys[back[i][1]], keys[back[i][2]], "")]
       \o [i \in 1..k |-> Edge(keys[i], UnknownId, "")]
       \o [i \in 1..k |-> Edge(UnknownId, keys[i], "")]

\* the subsequence of s at the positions in S
Pick(s, S) == LET F[i \in 0..Len(s)] ==
                      IF i = 0 THEN <<>>
                      ELSE IF i \in S THEN Append(F[i - 1], s[i]) ELSE F[i - 1]
              IN F[Len(s)]

\* the edge lists for the node keys: forward edges with any conditions, or
\* unconditioned forward edges followed by up to MaxExtraEdges extra edges
EdgeLists(keys) ==
    LET pairs == ForwardPairs(Len(keys))
        P == Range(pairs)
        extra == ExtraEdges(keys)
    IN {ForwardEdges(keys, pairs, choice) : choice \in [P -> Conditions \cup {Absent}]}
       \cup {ForwardEdges(keys, pairs, choice) \o Pick(extra, S) :
                choice \in [P -> {"", Absent}],
                S \in {T \in SUBSET DOMAIN extra : Cardinality(T) \in 1..MaxExtraEdges}}

Ids(node_list) == {node_list[i].id : i \in DOMAIN node_list}

-----------------------------------------------------------------------------
(* CodeExecAgent.run, called by the threads of one process                 *)

\* the threads of the process that run a code_exec agent: run_workflow is a
\* plain def, so the server runs each request in a thread of its pool
Threads == {"t1", "t2"}

\* print statements in the code of a code_exec node
MaxPrints == 1

\* how long the code runs: within the configured timeout, beyond it, or
\* without end
Durations == {"short", "long", "endless"}

Codes == [prints : 0..MaxPrints, raises : BOOLEAN, duration : Durations]

Stream(kind, owner) == [kind |-> kind, owner |-> owner]

\* the streams the process starts with
ProcessStdout == Stream("out", "process")
ProcessStderr == Stream("err", "process")

\* the io.StringIO objects of a call (lines 20-21)
CapturedOut(t) == Stream("out", t)
CapturedErr(t) == Stream("err", t)

Streams == {ProcessStdout, ProcessStderr} \cup {CapturedOut(t) : t \in Threads}
               \cup {CapturedErr(t) : t \in Threads}

NoStream == Stream("none", "none")

NoResult == [success |-> FALSE, output |-> OutNone, tokens_used |-> 0, cost_usd |-> 0]

\* a thread about to call CodeExecAgent.run on the code
CallOf(code) ==
    [at |-> "line18", code |-> code, old_stdout |-> NoStream, old_stderr |-> NoStream,
     left |-> code.prints, overdue |-> FALSE, stdout |-> <<>>, result |-> NoResult]

\* a thread that calls no code_exec agent
NoCall == [CallOf([prints |-> 0, raises |-> FALSE, duration |-> "short"])
              EXCEPT !.at = "idle"]

ProcessStarts(calls) ==
    /\ sys_stdout = ProcessStdout
    /\ sys_stderr = ProcessStderr
    /\ written = [st \in Streams |-> <<>>]
    /\ threads = calls

\* no thread runs a code_exec agent
NoCodeRunning == ProcessStarts([t \in Threads |-> NoCall])

At(t, line) == threads[t].at = line

Goes(t, th) == threads' = [threads EXCEPT ![t] = th]

\* line 18
SaveStdout(t) ==
    /\ At(t, "line18")
    /\ Goes(t, [threads[t] EXCEPT !.old_stdout = sys_stdout, !.at = "line19"])
    /\ UNCHANGED <<engine, call, gate, cancel, decided, earlier, request, sys_stdout, sys_stderr, written>>

\* line 19
SaveStderr(t) ==
    /\ At(t, "line19")
    /\ Goes(t, [threads[t] EXCEPT !.old_stderr = sys_stderr, !.at = "line20"])
    /\ UNCHANGED <<engine, call, gate, cancel, decided, earlier, request, sys_stdout, sys_stderr, written>>

\* line 20
InstallStdout(t) ==
    /\ At(t, "line20")
    /\ sys_stdout' = CapturedOut(t)
    /\ Goes(t, [threads[t] EXCEPT !.at = "line21"])
    /\ UNCHANGED <<engine, call, gate, cancel, decided, earlier, request, sys_stderr, written>>

\* line 21
InstallStderr(t) ==
    /\ At(t, "line21")
    /\ sys_stderr' = CapturedErr(t)
    /\ Goes(t, [threads[t] EXCEPT !.at = "line39"])
    /\ UNCHANGED <<engine, call, gate, cancel, decided, earlier, request, sys_stdout, written>>

\* line 39, a print of the code: print writes to whatever sys.stdout is when
\* it is called
WriteOut(t) ==
    /\ At(t, "line39")
    /\ threads[t].left > 0
    /\ written' = [written EXCEPT ![sys_stdout] = Append(@, t)]
    /\ Goes(t, [threads[t] EXCEPT !.left = @ - 1])
    /\ UNCHANGED <<engine, call, gate, cancel, decided, earlier, request, sys_stdout, sys_stderr>>

\* line 39, the configured timeout passes while the code runs: timeout is read
\* at line 16 and used nowhere, exec goes on
TimeoutPasses(t) ==
    /\ At(t, "line39")
    /\ threads[t].code.duration # "short"
    /\ ~threads[t].overdue
    /\ Goes(t, [threads[t] EXCEPT !.overdue = TRUE])
    /\ UNCHANGED <<engine, call, gate, cancel, decided, earlier, request, sys_stdout, sys_stderr, written>>

\* the code has run to its end; code that runs without end never has
CodeEnded(t) ==
    /\ At(t, "line39")
    /\ threads[t].left = 0
    /\ threads[t].code.duration # "endless"
    /\ threads[t].code.duration = "long" => threads[t].overdue

\* lines 39-50: exec returns, the captured text is read and the result built
ExecReturns(t) ==
    /\ CodeEnded(t)
    /\ ~threads[t].code.raises
    /\ LET stdout == written[CapturedOut(t)]
       IN Goes(t, [threads[t] EXCEPT
                      !.stdout = stdout,
                      !.result = Success(OutText(IF stdout # <<>> THEN "stdout"
                                                 ELSE "Code executed successfully"), 0, 0),
                      !.at = "line59"])
    /\ UNCHANGED <<engine, call, gate, cancel, decided, earlier, request, sys_stdout, sys_stderr, written>>

\* lines 51-57: the code raises
ExecRaises(t) ==
    /\ CodeEnded(t)
    /\ threads[t].code.raises
    /\ Goes(t, [threads[t] EXCEPT !.result = Failure("Execution error"), !.at = "line59"])
    /\ UNCHANGED <<engine, call, gate, cancel, decided, earlier, request, sys_stdout, sys_stderr, written>>

\* line 59
RestoreStdout(t) ==
    /\ At(t, "line59")
    /\ sys_stdout' = threads[t].old_stdout
    /\ Goes(t, [threads[t] EXCEPT !.at = "line60"])
    /\ UNCHANGED <<engine, call, gate, cancel, decided, earlier, request, sys_stderr, written>>

\* line 60, and the return of the result
RestoreStderr(t) ==
    /\ At(t, "line60")
    /\ sys_stderr' = threads[t].old_stderr
    /\ Goes(t, [threads[t] EXCEPT !.at = "returned"])
    /\ UNCHANGED <<engine, call, gate, cancel, decided, earlier, request, sys_stdout, written>>

-----------------------------------------------------------------------------
(* APICallAgent.run, called by the engine for an api_call node             *)

\* a text without a placeholder, and the placeholder {{key}}
Plain(text) == [hole |-> "", text |-> text]
Hole(key) == [hole |-> key, text |-> ""]

ContextKeys == {"input", "A"}

Templates == {Plain("v")} \cup {Hole(k) : k \in ContextKeys}

\* _interpolate: every {{key}} of the template whose key is in the context is
\* replaced by str(value)
Interpolate(template, context) ==
    IF template.hole \in DOMAIN context THEN Plain(context[template.hole]) ELSE template

\* the header names a node's config may hold, in the order of the mapping
HeaderNames == <<"H1", "H2">>

\* the mapping under "headers" in the node's config_overrides, and the dict
\* that self.config.get("headers", {}) makes when there is none
NodeHeaders == "node.config_overrides.headers"
FreshDict == "{}"

\* the api_call nodes: with or without a headers mapping
ApiConfigs ==
    {[url |-> u, method |-> m, has_headers |-> TRUE, headers |-> h] :
        u \in Templates, m \in {"GET", "PATCH"},
        h \in UNION {[K -> Templates] : K \in SUBSET Range(HeaderNames)}}
    \cup {[url |-> u, method |-> m, has_headers |-> FALSE, headers |-> EmptyDict] :
        u \in Templates, m \in {"GET", "PATCH"}}

\* the contexts the engine hands over: str(value) for each key present
ApiContexts == UNION {[K -> {"value"}] : K \in SUBSET ContextKeys}

NoApiCall ==
    /\ objects = [o \in {NodeHeaders, FreshDict} |-> EmptyDict]
    /\ api = [at |-> "idle", config |-> [url |-> Plain("v"), method |-> "GET",
                                         has_headers |-> FALSE, headers |-> EmptyDict],
              context |-> EmptyDict, headers |-> FreshDict, url |-> Plain("v"),
              todo |-> <<>>, result |-> NoResult]

\* the engine is about to run an api_call node of this config on this context
ApiStarts(config, context) ==
    /\ objects = [o \in {NodeHeaders, FreshDict} |->
                     IF o = NodeHeaders THEN config.headers ELSE EmptyDict]
    /\ api = [at |-> "called", config |-> config, context |-> context,
              headers |-> FreshDict, url |-> config.url, todo |-> <<>>,
              result |-> NoResult]

\* engine.py line 64 and api_call_agent.py lines 13-17: the merged config is
\* a new dict whose values are the objects of the node's config_overrides,
\* so headers names the node's own mapping when there is one
ApiReadsConfig ==
    /\ api.at = "called"
    /\ api' = [api EXCEPT !.headers = IF api.config.has_headers THEN NodeHeaders ELSE FreshDict,
                          !.at = "line20"]
    /\ UNCHANGED <<engine, call, gate, cancel, process, decided, earlier, objects>>

\* lines 20-23, the context not being empty
ApiInterpolatesUrl ==
    /\ api.at = "line20"
    /\ DOMAIN api.context # {}
    /\ api' = [api EXCEPT !.url = Interpolate(api.url, api.context),
                          !.todo = SelectSeq(HeaderNames,
                                             LAMBDA k : k \in DOMAIN objects[api.headers]),
                          !.at = "line24"]
    /\ UNCHANGED <<engine, call, gate, cancel, process, decided, earlier, objects>>

\* lines 24-25, one turn of the loop: headers[k] = self._interpolate(v, context)
ApiInterpolatesHeader ==
    /\ api.at = "line24"
    /\ api.todo # <<>>
    /\ objects' = [objects EXCEPT ![api.headers][Head(api.todo)] =
                                      Interpolate(@, api.context)]
    /\ api' = [api EXCEPT !.todo = Tail(@)]
    /\ UNCHANGED <<engine, call, gate, cancel, process, decided, earlier>>

\* the request is about to be made
ApiAtRequest ==
    \/ api.at = "line20" /\ DOMAIN api.context = {}
    \/ api.at = "line24" /\ api.todo = <<>>

\* lines 27-51: the request is answered, success is status_code < 400
ApiResponds ==
    /\ ApiAtRequest
    /\ api.config.method = "GET"
    /\ \E ok \in BOOLEAN :
          api' = [api EXCEPT !.result = [Success(OutText("response"), 0, 0)
                                            EXCEPT !.success = ok],
                             !.at = "returned"]
    /\ UNCHANGED <<engine, call, gate, cancel, process, decided, earlier, objects>>

\* lines 38-39
ApiUnsupportedMethod ==
    /\ ApiAtRequest
    /\ api.config.method # "GET"
    /\ api' = [api EXCEPT !.result = Failure("Unsupported method"), !.at = "returned"]
    /\ UNCHANGED <<engine, call, gate, cancel, process, decided, earlier, objects>>

\* lines 52-57: httpx raises (no connection, or the timeout of line 29)
ApiRaises ==
    /\ ApiAtRequest
    /\ api.config.method = "GET"
    /\ api' = [api EXCEPT !.result = Failure("API call failed"), !.at = "returned"]
    /\ UNCHANGED <<engine, call, gate, cancel, process, decided, earlier, objects>>

-----------------------------------------------------------------------------
(* Python values in configs and contexts                                   *)

\* a str is the sequence of its characters, a dict a function on its keys
Num(n) == [kind |-> "number", val |-> n]
Str(chars) == [kind |-> "string", val |-> chars]
PyNone == [kind |-> "null", val |-> 0]
Map(m) == [kind |-> "mapping", val |-> m]
List(items) == [kind |-> "sequence", val |-> items]

\* bool(v)
Truth(v) ==
    CASE v.kind = "number" -> v.val # 0
      [] v.kind = "string" -> v.val # <<>>
      [] v.kind = "mapping" -> DOMAIN v.val # {}
      [] v.kind = "sequence" -> v.val # <<>>
      [] OTHER -> FALSE

\* a == b on values of the kinds above
PyEq(a, b) == a.kind = b.kind /\ a.val = b.val

\* config.get(key, default)
Get(config, key, default) == IF key \in DOMAIN config THEN config[key] ELSE default

\* the characters that occur in the strings of the model, by code point
CharOrder == <<" ", "'", ".", "0", "1", "2", "3", "4", "5", "6", "7", "8", "9",
               ":", "A", "N", "a", "b", "e", "k", "n", "o", "v", "w", "{", "}">>

CodePoint(c) == CHOOSE i \in DOMAIN CharOrder : CharOrder[i] = c

DigitChars == <<"0", "1", "2", "3", "4", "5", "6", "7", "8", "9">>

DigitValue(c) == (CHOOSE i \in DOMAIN DigitChars : DigitChars[i] = c) - 1

\* str.isdigit on the characters of the model
isdigit(chars) == chars # <<>> /\ \A i \in DOMAIN chars : chars[i] \in Range(DigitChars)

\* int(chars) for a string of digits
RECURSIVE IntOf(_)
IntOf(chars) ==
    IF chars = <<>> THEN 0
    ELSE IntOf(SubSeq(chars, 1, Len(chars) - 1)) * 10 + DigitValue(chars[Len(chars)])

\* str(n) for a natural number
RECURSIVE StrOfInt(_)
StrOfInt(n) ==
    IF n < 10 THEN <<DigitChars[n + 1]>>
    ELSE StrOfInt(n \div 10) \o <<DigitChars[(n % 10) + 1]>>

\* repr(v); a mapping of the model has one key at most
RECURSIVE Repr(_)
Repr(v) ==
    CASE v.kind = "number" -> StrOfInt(v.val)
      [] v.kind = "string" -> <<"'">> \o v.val \o <<"'">>
      [] v.kind = "null" -> <<"N", "o", "n", "e">>
      [] v.kind = "mapping" ->
            IF DOMAIN v.val = {} THEN <<"{", "}">>
            ELSE LET k == CHOOSE key \in DOMAIN v.val : TRUE
                 IN <<"{", "'">> \o k \o <<"'", ":", " ">> \o Repr(v.val[k]) \o <<"}">>

\* str(v)
StrOf(v) == IF v.kind = "string" THEN v.val ELSE Repr(v)

\* needle in hay, for two strings
Contains(hay, needle) ==
    \E i \in 0..(Len(hay) - Len(needle)) : SubSeq(hay, i + 1, i + Len(needle)) = needle

\* a < b for two strings: by the first character that differs
RECURSIVE StrLess(_, _)
StrLess(a, b) ==
    IF b = <<>> THEN FALSE
    ELSE IF a = <<>> THEN TRUE
    ELSE IF Head(a) = Head(b) THEN StrLess(Tail(a), Tail(b))
    ELSE CodePoint(Head(a)) < CodePoint(Head(b))

\* chars.split(".")
RECURSIVE Split(_)
Split(chars) ==
    IF \A i \in DOMAIN chars : chars[i] # "."
    THEN <<chars>>
    ELSE LET dot == CHOOSE i \in DOMAIN chars :
                        chars[i] = "." /\ \A j \in 1..(i - 1) : chars[j] # "."
         IN <<SubSeq(chars, 1, dot - 1)>> \o Split(SubSeq(chars, dot + 1, Len(chars)))

\* the state of a call of an agent's run on a config and a context
NoAgentCall ==
    call = [agent |-> "none", at |-> "idle", config |-> EmptyDict,
            context |-> Map(EmptyDict), outcome |-> Exception("none")]

AgentCalled(agent, config, context) ==
    call = [agent |-> agent, at |-> "called", config |-> config,
            context |-> context, outcome |-> Exception("none")]

\* the config with the keys in K only
Only(config, K) == [k \in K |-> config[k]]

-----------------------------------------------------------------------------
(* ConditionalAgent.run                                                    *)

\* _extract, after field.split("."): a part applied to what is no dict gives None
RECURSIVE ConditionalExtract(_, _)
ConditionalExtract(current, parts) ==
    IF parts = <<>> THEN current
    ELSE IF current.kind = "mapping"
         THEN ConditionalExtract(Get(current.val, Head(parts), PyNone), Tail(parts))
         ELSE PyNone

\* float(v): of a number, or of a string that spells one (here: digits)
Float(v) ==
    CASE v.kind = "number" -> [ok |-> TRUE, val |-> v]
      [] v.kind = "string" /\ isdigit(v.val) -> [ok |-> TRUE, val |-> Num(IntOf(v.val))]
      [] OTHER -> [ok |-> FALSE, val |-> v]

\* lines 39-43: actual is converted first, value after it; the first
\* conversion that raises ends both, and what was converted before stays
Coerce(actual, value) ==
    LET a == IF Truth(actual) THEN Float(actual) ELSE [ok |-> TRUE, val |-> Num(0)]
        v == IF Truth(value) THEN Float(value) ELSE [ok |-> TRUE, val |-> Num(0)]
    IN IF ~a.ok THEN <<actual, value>>
       ELSE IF ~v.ok THEN <<a.val, value>>
       ELSE <<a.val, v.val>>

\* a < b is defined for two numbers and for two strings
Comparable(a, b) == a.kind = b.kind /\ a.kind \in {"number", "string"}

Less(a, b) == IF a.kind = "number" THEN a.val < b.val ELSE StrLess(a.val, b.val)

Met(b) == [ok |-> TRUE, met |-> b]
TypeError == [ok |-> FALSE, met |-> FALSE]

\* OPERATORS.get(op, operator.eq)(a, b): the truth value, or a TypeError
OPERATORS(op, a, b) ==
    CASE op = "ne" -> Met(~PyEq(a, b))
      [] op = "gt" -> IF Comparable(a, b) THEN Met(Less(b, a)) ELSE TypeError
      [] op = "gte" -> IF Comparable(a, b) THEN Met(~Less(a, b)) ELSE TypeError
      [] op = "lt" -> IF Comparable(a, b) THEN Met(Less(a, b)) ELSE TypeError
      [] op = "lte" -> IF Comparable(a, b) THEN Met(~Less(b, a)) ELSE TypeError
      [] op = "contains" ->
            IF b.kind = "string" THEN Met(Contains(StrOf(a), b.val)) ELSE TypeError
      [] op = "not_contains" ->
            IF b.kind = "string" THEN Met(~Contains(StrOf(a), b.val)) ELSE TypeError
      [] op = "is_empty" -> Met(~Truth(a))
      [] op = "is_not_empty" -> Met(Truth(a))
      [] OTHER -> Met(PyEq(a, b))

\* run: the result returned, or the exception let through
ConditionalRun(config, context) ==
    LET field == Get(config, "field", Str(<<>>))
        op == Get(config, "operator", "eq")
        value == Get(config, "value", Str(<<>>))
    IN IF field.kind # "string" THEN Exception("AttributeError")
       ELSE LET actual == ConditionalExtract(context, Split(field.val))
                pair == IF op \in {"gt", "gte", "lt", "lte"}
                        THEN Coerce(actual, value) ELSE <<actual, value>>
                r == OPERATORS(op, pair[1], pair[2])
            IN IF r.ok THEN Success(OutBranch(r.met), 0, 0)
               ELSE Failure("Condition evaluation failed")

\* the values of a conditional's config and of the data it looks at
CondValues ==
    {Num(0), Num(5), Str(<<>>), Str(<<"5">>), Str(<<"a", "b">>), PyNone,
     Map(EmptyDict), Map(<<"k">> :> Num(5))}

CondFields ==
    {Str(<<"A", ".", "v">>), Str(<<"A">>), Str(<<"v">>), Str(<<"A", ".", "v", ".", "w">>),
     Str(<<>>), Num(5), PyNone}

CondOperators ==
    {"eq", "ne", "gt", "gte", "lt", "lte", "contains", "not_contains", "is_empty",
     "is_not_empty", "between"}

\* the contexts: empty, or the output of an upstream node A with one field
CondContexts == {Map(EmptyDict)} \cup {Map(<<"A">> :> Map(<<"v">> :> x)) : x \in CondValues}

\* the call of run ends: it returns a result or lets an exception through
ConditionalRuns ==
    /\ call.agent = "conditional" /\ call.at = "called"
    /\ LET outcome == ConditionalRun(call.config, call.context)
       IN call' = [call EXCEPT !.outcome = outcome,
                               !.at = IF IsException(outcome) THEN "raised" ELSE "returned"]
    /\ UNCHANGED <<engine, gate, cancel, process, decided, earlier, request>>

-----------------------------------------------------------------------------
(* DataTransformAgent.run                                                  *)

Found(v) == [ok |-> TRUE, val |-> v]
IndexError == [ok |-> FALSE, val |-> PyNone]

\* _extract, after field.split("."): a part is a key of a dict or, when it is
\* all digits, an index into a list; current[int(part)] raises IndexError
\* past the end of the list
RECURSIVE TransformExtract(_, _)
TransformExtract(current, parts) ==
    IF parts = <<>> THEN Found(current)
    ELSE IF current.kind = "mapping"
         THEN TransformExtract(Get(current.val, Head(parts), PyNone), Tail(parts))
    ELSE IF current.kind = "sequence" /\ isdigit(Head(parts))
         THEN IF IntOf(Head(parts)) < Len(current.val)
              THEN TransformExtract(current.val[IntOf(Head(parts)) + 1], Tail(parts))
              ELSE IndexError
    ELSE Found(PyNone)

\* a passthrough that hands on an empty mapping
PassthroughNothing(data) == Map(EmptyDict)

\* lines 21-22 and 40-41: result = data
Passthrough(data) == data

\* run, for the operations passthrough and extract_field and for an
\* operation that is none of the seven
TransformRun(config, context) ==
    LET operation == Get(config, "operation", "passthrough")
        input_key == Get(config, "input_key", PyNone)
        data == IF Truth(input_key) /\ input_key.val \in DOMAIN context.val
                THEN context.val[input_key.val] ELSE context
        field == Get(config, "field", Str(<<>>))
        result == IF operation = "extract_field"
                  THEN IF field.kind = "string" THEN TransformExtract(data, Split(field.val))
                       ELSE [ok |-> FALSE, val |-> PyNone]
                  ELSE Found(Passthrough(data))
        output_key == Get(config, "output_key", PyNone)
    IN IF ~result.ok THEN Failure("Transform failed")
       ELSE IF Truth(output_key) THEN Success(Map(output_key.val :> result.val), 0, 0)
       ELSE Success(result.val, 0, 0)

TransformOperations == {"passthrough", "extract_field", "reverse"}

TransformFields ==
    {Str(<<"A", ".", "v">>), Str(<<"A", ".", "w">>), Str(<<"A", ".", "v", ".", "0">>),
     Str(<<"A", ".", "v", ".", "1">>), Str(<<"A", ".", "v", ".", "2">>),
     Str(<<"A", ".", "v", ".", "k">>), Str(<<"A", ".", "v", ".", "1", ".", "k">>),
     Str(<<>>), Num(5)}

\* the keys a config names: one that the contexts have, one that they lack, and
\* the empty string
TransformKeys == {Str(<<"A">>), Str(<<"k">>), Str(<<>>)}

\* the contexts: empty, or the output of an upstream node A
TransformContexts ==
    {Map(EmptyDict)} \cup
    {Map(<<"A">> :> x) :
        x \in {Str(<<"a", "b">>), Map(<<"v">> :> Num(5)), Map(<<"v">> :> List(<<>>)),
               Map(<<"v">> :> List(<<Num(5), Map(<<"k">> :> Num(0))>>))}}

\* the call of run ends: it returns a result
TransformRuns ==
    /\ call.agent = "data_transform" /\ call.at = "called"
    /\ LET outcome == TransformRun(call.config, call.context)
       IN call' = [call EXCEPT !.outcome = outcome,
                               !.at = IF IsException(outcome) THEN "raised" ELSE "returned"]
    /\ UNCHANGED <<engine, gate, cancel, process, decided, earlier, request>>

-----------------------------------------------------------------------------
(* WorkflowEngine.run, lines 58-65: the agent kind and the config of a node  *)
(* A node and an agent definition are dicts that may lack any of their keys; *)
(* agent kinds and ids are strings, "" the empty one.                        *)

\* the definition's kind first, the node's own only without one
AgentTypeDefFirst(node, agent_defs) ==
    LET agent_def == Get(agent_defs, Get(node, "agent_def_id", ""), EmptyDict)
    IN IF "agent_type" \in DOMAIN agent_def THEN agent_def["agent_type"]
       ELSE Get(node, "agent_type", "llm")

\* lines 59-61; node.get("agent_type") is None without the key, and None and ""
\* are the values that `or` passes over
AgentType(node, agent_defs) ==
    LET agent_def_id == Get(node, "agent_def_id", "")
        agent_def == Get(agent_defs, agent_def_id, EmptyDict)
    IN IF "agent_type" \in DOMAIN node /\ node["agent_type"] # ""
       THEN node["agent_type"]
       ELSE Get(agent_def, "agent_type", "llm")

\* the definition's value on a key that both have
ConfigDefWins(node, agent_defs) ==
    LET agent_def == Get(agent_defs, Get(node, "agent_def_id", ""), EmptyDict)
        defaults == Get(agent_def, "config", EmptyDict)
        overrides == Get(node, "config_overrides", EmptyDict)
    IN [k \in DOMAIN defaults \cup DOMAIN overrides |->
            IF k \in DOMAIN defaults THEN defaults[k] ELSE overrides[k]]

\* line 64: {**agent_def.get("config", {}), **node.get("config_overrides", {})}
Config(node, agent_defs) ==
    LET agent_def == Get(agent_defs, Get(node, "agent_def_id", ""), EmptyDict)
        defaults == Get(agent_def, "config", EmptyDict)
        overrides == Get(node, "config_overrides", EmptyDict)
    IN [k \in DOMAIN defaults \cup DOMAIN overrides |->
            IF k \in DOMAIN overrides THEN overrides[k] ELSE defaults[k]]

\* the kinds a node names: none, one of the registry, one that is not
NodeAgentTypes == {"", "conditional", "bogus"}

\* the kinds a definition names
DefAgentTypes == {"", "web_search"}

\* the id of the one definition of the store
DefId == "d1"

\* the ids a node names: none, the stored one, one that the store lacks
NodeDefIds == {"", DefId, "d2"}

\* the configs of a definition
DefConfigs ==
    {EmptyDict, "model" :> "of def", ("model" :> "of def") @@ ("temperature" :> "of def")}

\* the overrides of a node
NodeOverrides ==
    {EmptyDict, "model" :> "of node", ("model" :> "of node") @@ ("url" :> "of node")}

\* the stores: empty, or with one definition that has or lacks each of its keys
DefStores ==
    {EmptyDict} \cup
    {DefId :> Only([agent_type |-> t, config |-> c], K) :
        t \in DefAgentTypes, c \in DefConfigs, K \in SUBSET {"agent_type", "config"}}

\* the loop of run reached a node with the engine's definitions
NodeReached(node, agent_defs) ==
    call = [agent |-> "engine", at |-> "line 58", node |-> node,
            agent_defs |-> agent_defs, outcome |-> Exception("none")]

\* lines 59-65, to the try
ResolvesAgent ==
    /\ call.agent = "engine" /\ call.at = "line 58"
    /\ call' = [call EXCEPT !.at = "line 67",
                            !.outcome = [agent_type |-> AgentType(call.node, call.agent_defs),
                                         config |-> Config(call.node, call.agent_defs)]]
    /\ UNCHANGED <<engine, gate, cancel, process, decided, earlier, request>>

-----------------------------------------------------------------------------
(* run_workflow (routers/workflow_router.py) and check_usage_limit (auth.py) *)
(* Each request is handled by a thread of its own with a database session   *)
(* of its own; the sessions see what was committed (READ COMMITTED, the      *)
(* default of the PostgreSQL of settings.DATABASE_URL), and a commit expires *)
(* the objects a session has loaded (expire_on_commit, the default of        *)
(* sessionmaker in db.py).                                                   *)

\* the requests of one user to run a workflow
Requests == {"r1", "r2", "r3"}

\* limits.get(user.plan, 10) for the user's plan, and the runs the user has
\* made before the requests arrive
Limit == 2
RunsBefore == 0..Limit

NewRequest == [at |-> "new", runs_this_month |-> 0]

\* no request is being handled
NoRequests == runs_this_month = 0 /\ handlers = [r \in Requests |-> NewRequest]

\* the handler of request r goes to a new position
MovesTo(r, at) == handlers' = [handlers EXCEPT ![r].at = at]

\* the handler loads the column into its session's User object and goes on
Loads(r, at) ==
    handlers' = [handlers EXCEPT ![r] = [at |-> at, runs_this_month |-> runs_this_month]]

\* get_current_user (auth.py, line 46): the session loads the user's row
GetCurrentUser(r) ==
    /\ handlers[r].at = "new"
    /\ Loads(r, "line 82")
    /\ UNCHANGED <<engine, cancel, process, decided, earlier, request, call, runs_this_month>>

\* auth.py, line 61
OverLimit(used, limit) == used >= limit

\* check_usage_limit (auth.py, lines 52-65): HTTP 429 at the limit
CheckUsageLimit(r) ==
    /\ handlers[r].at = "line 82"
    /\ MovesTo(r, IF OverLimit(handlers[r].runs_this_month, Limit) THEN "429" ELSE "line 84")
    /\ UNCHANGED <<engine, cancel, process, decided, earlier, request, call, runs_this_month>>

\* lines 84-86: the workflow is not one of the user's, HTTP 404
WorkflowNotFound(r) ==
    /\ handlers[r].at = "line 84"
    /\ MovesTo(r, "404")
    /\ UNCHANGED <<engine, cancel, process, decided, earlier, request, call, runs_this_month>>

\* lines 84-101: the run record is added and committed; the commit expires
\* the User object of the session
CreateRunRecord(r) ==
    /\ handlers[r].at = "line 84"
    /\ MovesTo(r, "line 104")
    /\ UNCHANGED <<engine, cancel, process, decided, earlier, request, call, runs_this_month>>

\* lines 104-105: an engine is made and run; run returns a record, completed
\* or failed, or lets an exception through, which ends the request
EngineRuns(r) ==
    /\ handlers[r].at = "line 104"
    /\ \E at \in {"line 108", "500"} : MovesTo(r, at)
    /\ UNCHANGED <<engine, cancel, process, decided, earlier, request, call, runs_this_month>>

\* lines 108-119: user.runs_this_month += 1 reads the attribute of the expired
\* object, which loads the row again, and sets it to one more in the session
ReadsUsage(r) ==
    /\ handlers[r].at = "line 108"
    /\ Loads(r, "line 120")
    /\ UNCHANGED <<engine, cancel, process, decided, earlier, request, call, runs_this_month>>

\* lines 120-130: the commit writes the value set in the session
CommitsUsage(r) ==
    /\ handlers[r].at = "line 120"
    /\ runs_this_month' = handlers[r].runs_this_month + 1
    /\ MovesTo(r, "200")
    /\ UNCHANGED <<engine, cancel, process, decided, earlier, request, call>>

NextGate ==
    \E r \in Requests :
        \/ GetCurrentUser(r)
        \/ CheckUsageLimit(r)
        \/ WorkflowNotFound(r)
        \/ CreateRunRecord(r)
        \/ EngineRuns(r)
        \/ ReadsUsage(r)
        \/ CommitsUsage(r)

-----------------------------------------------------------------------------
(* State after construction                                                *)

\* no engine has run on the graph before
NoEarlier == [ran |-> FALSE, input_data |-> NoInput, execution_order |-> <<>>,
              results |-> EmptyDict, ret |-> NoReturn]

\* no cancellation was asked for
NotCancelled == [raised |-> FALSE, calls |-> 0]

Constructed(g) ==
    /\ graph = g
    /\ nodes = DictOfNodes(g.nodes)
    /\ node_keys = DictKeys(g.nodes)
    /\ edges = g.edges
    /\ results = EmptyDict
    /\ result_keys = <<>>
    /\ total_tokens = 0
    /\ total_cost = 0
    /\ pc = "idle"
    /\ input_data = NoInput
    /\ execution_order = <<>>
    /\ pos = 0
    /\ skipped_nodes = {}
    /\ context_store = EmptyDict
    /\ contexts = EmptyDict
    /\ processed = <<>>
    /\ ret = NoReturn
    /\ runs = 0
    /\ executing = {}
    /\ cancel = NotCancelled
    /\ decided = EmptyDict
    /\ earlier = NoEarlier

Graphs(max) ==
    \E n \in 0..max :
        \E ids \in IdLists(n) :
            \E es \in EdgeLists(DictKeys([i \in 1..n |-> [id |-> NodeNames[ids[i]]]])) :
                \E attrs \in [1..n -> AgentTypes \X BOOLEAN] :
                    /\ Constructed([nodes |-> NodeList(ids, attrs), edges |-> es])
                    /\ NoCodeRunning /\ NoApiCall /\ NoAgentCall /\ NoRequests

Init == Graphs(Len(NodeNames))

\* the engines whose run is called more than once: one node list shorter
InitReuse == Graphs(Len(NodeNames) - 1)

\* the key under which _gather_context hands the input payload to an agent
InputKey == "input"

\* the graph g with the node id old replaced by new, in nodes and edges
Renamed(g, old, new) ==
    LET name(id) == IF id = old THEN new ELSE id
    IN [nodes |-> [i \in DOMAIN g.nodes |-> [g.nodes[i] EXCEPT !.id = name(@)]],
        edges |-> [k \in DOMAIN g.edges |->
                      [g.edges[k] EXCEPT !.source_id = name(@), !.target_id = name(@)]]]

\* the graphs of InitReuse with "input" as the id of their first node, as in
\* the Data Enrichment Pipeline of routers/template_router.py (lines 86-96)
InitInputNode ==
    \E n \in 0..(Len(NodeNames) - 1) :
        \E ids \in IdLists(n) :
            \E es \in EdgeLists(DictKeys([i \in 1..n |-> [id |-> NodeNames[ids[i]]]])) :
                \E attrs \in [1..n -> AgentTypes \X BOOLEAN] :
                    /\ Constructed(Renamed([nodes |-> NodeList(ids, attrs), edges |-> es],
                                           NodeNames[1], InputKey))
                    /\ NoCodeRunning /\ NoApiCall /\ NoAgentCall /\ NoRequests

\* a conditional agent about to run: a config with all its keys or without
\* one of them, and a context
InitConditional ==
    /\ Constructed([nodes |-> <<>>, edges |-> <<>>])
    /\ NoCodeRunning /\ NoApiCall /\ NoRequests
    /\ \E field \in CondFields : \E op \in CondOperators : \E value \in CondValues :
          \E K \in {S \in SUBSET {"field", "operator", "value"} : Cardinality(S) >= 2} :
              \E context \in CondContexts :
                  AgentCalled("conditional",
                              Only([field |-> field, operator |-> op, value |-> value], K),
                              context)

\* a data_transform agent about to run: a config with or without each of its
\* keys, and a context
InitTransform ==
    /\ Constructed([nodes |-> <<>>, edges |-> <<>>])
    /\ NoCodeRunning /\ NoApiCall /\ NoRequests
    /\ \E operation \in TransformOperations : \E field \in TransformFields :
          \E input_key \in TransformKeys : \E output_key \in TransformKeys :
              \E K \in SUBSET {"operation", "field", "input_key", "output_key"} :
                  \E context \in TransformContexts :
                      AgentCalled("data_transform",
                                  Only([operation |-> operation, field |-> field,
                                        input_key |-> input_key, output_key |-> output_key], K),
                                  context)

\* the loop at a node that has or lacks each of the three keys, with a store
InitResolve ==
    /\ Constructed([nodes |-> <<>>, edges |-> <<>>])
    /\ NoCodeRunning /\ NoApiCall /\ NoRequests
    /\ \E t \in NodeAgentTypes : \E d \in NodeDefIds : \E o \in NodeOverrides :
          \E K \in SUBSET {"agent_type", "agent_def_id", "config_overrides"} :
              \E agent_defs \in DefStores :
                  NodeReached(Only([agent_type |-> t, agent_def_id |-> d,
                                    config_overrides |-> o], K),
                              agent_defs)

\* graphs for the ordering: any edge list over the ids and the unknown id,
\* repeated edges and any order included; all nodes alike
InitSort ==
    \E n \in 0..Len(NodeNames) :
        \E ids \in IdLists(n) :
            \E es \in SeqsUpTo([source_id : {NodeNames[ids[i]] : i \in 1..n} \cup {UnknownId},
                                target_id : {NodeNames[ids[i]] : i \in 1..n} \cup {UnknownId},
                                condition : {""}], MaxSortEdges) :
                /\ Constructed([nodes |-> NodeList(ids, [i \in 1..n |-> <<"llm", TRUE>>]),
                                edges |-> es])
                /\ NoCodeRunning /\ NoApiCall /\ NoAgentCall /\ NoRequests

\* graphs for termination: two nodes of any kind and any list of unlabelled
\* edges over them, with cycles, self-loops, repeated edges and edges to an id
\* that is no node
InitLoops ==
    \E attrs \in [1..2 -> {"llm", "conditional"} \X BOOLEAN] :
        \E es \in SeqsUpTo([source_id : {NodeNames[1], NodeNames[2]},
                            target_id : {NodeNames[1], NodeNames[2], UnknownId},
                            condition : {""}], MaxSortEdges) :
            /\ Constructed([nodes |-> NodeList(<<1, 2>>, attrs), edges |-> es])
            /\ NoCodeRunning /\ NoApiCall /\ NoAgentCall /\ NoRequests

\* requests of one user, who has made some runs this month, arrive
InitGate ==
    /\ Constructed([nodes |-> <<>>, edges |-> <<>>])
    /\ NoCodeRunning /\ NoApiCall /\ NoAgentCall
    /\ runs_this_month \in RunsBefore
    /\ handlers = [r \in Requests |-> NewRequest]

\* a process whose threads each call a code_exec agent; no engine state is
\* involved
InitExec ==
    /\ Constructed([nodes |-> <<>>, edges |-> <<>>])
    /\ NoApiCall /\ NoAgentCall /\ NoRequests
    /\ \E codes \in [Threads -> Codes] : ProcessStarts([t \in Threads |-> CallOf(codes[t])])

\* an engine about to run an api_call node
InitApi ==
    /\ Constructed([nodes |-> <<>>, edges |-> <<>>])
    /\ NoCodeRunning /\ NoAgentCall /\ NoRequests
    /\ \E config \in ApiConfigs : \E context \in ApiContexts : ApiStarts(config, context)

-----
(* WorkflowEngine.run                                                      *)

\* lines 38-45: order the nodes, fresh skipped_nodes and context_store
StartRun(inp) ==
    /\ runs' = runs + 1
    /\ input_data' = inp
    /\ execution_order' = topological_sort(node_keys, edges)
    /\ skipped_nodes' = {}
    /\ context_store' = IF Truthy(inp) THEN Put(EmptyDict, "__input__", inp) ELSE EmptyDict
    /\ contexts' = EmptyDict
    /\ processed' = <<>>
    /\ pos' = 1
    /\ pc' = "loop"
    /\ ret' = NoReturn
    /\ UNCHANGED <<graph, nodes, node_keys, edges, results, result_keys,
                   total_tokens, total_cost, executing>>
    /\ UNCHANGED outside
    /\ UNCHANGED decided

Start == pc = "idle" /\ \E inp \in InputPayloads : StartRun(inp)

\* a second call of run on the same engine object
Rerun == pc = "done" /\ runs < MaxRuns /\ \E inp \in InputPayloads : StartRun(inp)

\* a loop that takes no node from the order
InLoopNever == FALSE

\* line 47: the order has a node left
InLoop == pc = "loop" /\ pos <= Len(execution_order)

Current == execution_order[pos]

SkippedResult == [status |-> "skipped", output |-> OutNone, has_usage |-> FALSE,
                  tokens_used |-> 0, cost_usd |-> 0]

\* a node in error recorded as a failed one
ErrorAsFailed == [status |-> "failed", output |-> OutText("exception"), has_usage |-> FALSE,
                  tokens_used |-> 0, cost_usd |-> 0]

\* lines 101-105
ErrorResult == [status |-> "error", output |-> OutText("exception"), has_usage |-> FALSE,
                tokens_used |-> 0, cost_usd |-> 0]

\* lines 71-78
NodeResult(result) ==
    [status |-> IF result.success THEN "completed" ELSE "failed",
     output |-> result.output, has_usage |-> TRUE,
     tokens_used |-> result.tokens_used, cost_usd |-> result.cost_usd]

\* lines 48-50
SkipNode ==
    /\ InLoop
    /\ Current \in skipped_nodes
    /\ results' = Put(results, Current, SkippedResult)
    /\ result_keys' = PutKey(result_keys, Current)
    /\ processed' = Append(processed, Current)
    /\ pos' = pos + 1
    /\ UNCHANGED <<graph, nodes, node_keys, edges, total_tokens, total_cost, pc,
                   input_data, execution_order, skipped_nodes, context_store,
                   contexts, ret, runs, executing>>
    /\ UNCHANGED outside
    /\ UNCHANGED decided

\* line 52: self.nodes[node_id] for an id that is no key of self.nodes; the
\* KeyError is raised outside the try block and leaves run
LookupFails ==
    /\ InLoop
    /\ Current \notin skipped_nodes
    /\ Current \notin DOMAIN nodes
    /\ pc' = "raised"
    /\ ret' = Raised("KeyError")
    /\ UNCHANGED <<graph, nodes, node_keys, edges, results, result_keys,
                   total_tokens, total_cost, input_data, execution_order, pos,
                   skipped_nodes, context_store, contexts, processed, runs, executing>>
    /\ UNCHANGED outside
    /\ UNCHANGED decided

\* lines 80-81
Accumulate(total, amount) == total + amount

\* lines 84-87: the entry of context_store written for a returned result
StoreOutput(store, node_id, result) == Put(store, node_id, Normalize(result.output))

\* the isinstance test of line 90 left out
PrunedWhateverOutput(agent_type, node_id, result) ==
    IF agent_type = "conditional"
    THEN get_skipped_branches(edges, node_id, result.output.branch)
    ELSE {}

\* lines 90-93
Pruned(agent_type, node_id, result) ==
    IF agent_type = "conditional" /\ result.output.isdict
    THEN get_skipped_branches(edges, node_id, result.output.branch)
    ELSE {}

\* stop_on_failure read the wrong way round
StopsRunInverted(node, succeeded) == ~succeeded /\ ~node.stop_on_failure

\* line 96 and line 106
StopsRun(node, succeeded) == ~succeeded /\ node.stop_on_failure

\* lines 52-69: the node is looked up, its context gathered, its agent built,
\* and agent.run is called
CallAgent ==
    /\ InLoop
    /\ Current \notin skipped_nodes
    /\ Current \in DOMAIN nodes
    /\ ~GetAgentRaises(nodes[Current].agent_type)
    /\ contexts' = Put(contexts, Current, gather_context(Current, context_store, input_data))
    /\ executing' = executing \cup {Current}
    /\ pc' = "call"
    /\ UNCHANGED <<graph, nodes, node_keys, edges, results, result_keys,
                   total_tokens, total_cost, input_data, execution_order, pos,
                   skipped_nodes, context_store, processed, ret, runs>>
    /\ UNCHANGED outside
    /\ UNCHANGED decided

\* lines 69-98: agent.run returns a result
AgentReturns ==
    /\ pc = "call"
    /\ LET node_id == Current
           node == nodes[node_id]
       IN \E result \in {o \in Outcomes(node.agent_type, node_id, contexts[node_id]) :
                             ~IsException(o)} :
             LET res == Put(results, node_id, NodeResult(result))
                 keys == PutKey(result_keys, node_id)
                 tokens == Accumulate(total_tokens, result.tokens_used)
                 cost == Accumulate(total_cost, result.cost_usd)
             IN /\ executing' = executing \ {node_id}
                /\ decided' = IF Deterministic(node.agent_type)
                              THEN Put(decided, <<node_id, contexts[node_id]>>, result)
                              ELSE decided
                /\ results' = res
                /\ result_keys' = keys
                /\ total_tokens' = tokens
                /\ total_cost' = cost
                /\ context_store' = StoreOutput(context_store, node_id, result)
                /\ skipped_nodes' = skipped_nodes \cup Pruned(node.agent_type, node_id, result)
                /\ processed' = Append(processed, node_id)
                /\ IF StopsRun(node, result.success)
                   THEN /\ pc' = "done"
                        /\ ret' = build_result("failed", res, keys, tokens, cost, node_id)
                        /\ pos' = pos
                   ELSE /\ pc' = "loop"
                        /\ ret' = ret
                        /\ pos' = pos + 1
    /\ UNCHANGED <<graph, nodes, node_keys, edges, input_data, execution_order, runs,
                   contexts>>
    /\ UNCHANGED outside

\* lines 100-107: get_agent raises at line 68, or agent.run at line 69; the
\* exception is caught, the node recorded, and the run stops or goes on
AgentRaises ==
    /\ \/ /\ InLoop
          /\ Current \notin skipped_nodes
          /\ Current \in DOMAIN nodes
          /\ GetAgentRaises(nodes[Current].agent_type)
          /\ UNCHANGED <<executing, decided>>
       \/ /\ pc = "call"
          /\ \E e \in {o \in Outcomes(nodes[Current].agent_type, Current, contexts[Current]) :
                           IsException(o)} :
                decided' = IF Deterministic(nodes[Current].agent_type)
                           THEN Put(decided, <<Current, contexts[Current]>>, e)
                           ELSE decided
          /\ executing' = executing \ {Current}
    /\ LET node_id == Current
           node == nodes[node_id]
           res == Put(results, node_id, ErrorResult)
           keys == PutKey(result_keys, node_id)
       IN /\ results' = res
          /\ result_keys' = keys
          /\ processed' = Append(processed, node_id)
          /\ IF StopsRun(node, FALSE)
             THEN /\ pc' = "done"
                  /\ ret' = build_result("failed", res, keys, total_tokens, total_cost, node_id)
                  /\ pos' = pos
             ELSE /\ pc' = "loop"
                  /\ ret' = ret
                  /\ pos' = pos + 1
    /\ UNCHANGED <<graph, nodes, node_keys, edges, total_tokens, total_cost,
                   input_data, execution_order, skipped_nodes, context_store, runs,
                   contexts>>
    /\ UNCHANGED outside

\* line 109: the loop ran to its end
Finish ==
    /\ pc = "loop"
    /\ pos > Len(execution_order)
    /\ pc' = "done"
    /\ ret' = build_result("completed", results, result_keys, total_tokens, total_cost, NoNode)
    /\ UNCHANGED <<graph, nodes, node_keys, edges, results, result_keys,
                   total_tokens, total_cost, input_data, execution_order, pos,
                   skipped_nodes, context_store, contexts, processed, runs, executing>>
    /\ UNCHANGED outside
    /\ UNCHANGED decided

Next ==
    \/ Start
    \/ SkipNode
    \/ LookupFails
    \/ CallAgent
    \/ AgentReturns
    \/ AgentRaises
    \/ Finish

Spec == Init /\ [][Next]_vars

\* runs of graphs that have a node whose id is "input"
SpecInputNode == InitInputNode /\ [][Next]_vars

\* the ordering alone, on the graphs of InitSort
SpecSort == InitSort /\ [][Start]_vars

\* the caller asks for the run to be cancelled while a node is in progress or
\* still to come; run takes no such signal and no step of it looks at one
Cancel ==
    /\ InLoop \/ pc = "call"
    /\ ~cancel.raised
    /\ cancel' = [raised |-> TRUE, calls |-> Cardinality(DOMAIN contexts)]
    /\ UNCHANGED <<graph, nodes, node_keys, edges, results, result_keys,
                   total_tokens, total_cost, pc, input_data, execution_order, pos,
                   skipped_nodes, context_store, contexts, processed, ret, runs,
                   executing>>
    /\ UNCHANGED <<process, decided, earlier, request, call, gate>>

NextCancel == Next \/ Cancel

\* runs during which the caller may ask for cancellation
SpecCancel == InitReuse /\ [][NextCancel]_vars

\* run_workflow builds a new WorkflowEngine on the stored graph for every
\* request: the engine that ran is dropped, what it gave is remembered
NewEngine ==
    /\ pc \in {"done", "raised"}
    /\ ~earlier.ran
    /\ earlier' = [ran |-> TRUE, input_data |-> input_data,
                   execution_order |-> execution_order, results |-> results, ret |-> ret]
    /\ results' = EmptyDict
    /\ result_keys' = <<>>
    /\ total_tokens' = 0
    /\ total_cost' = 0
    /\ pc' = "idle"
    /\ input_data' = NoInput
    /\ execution_order' = <<>>
    /\ pos' = 0
    /\ skipped_nodes' = {}
    /\ context_store' = EmptyDict
    /\ contexts' = EmptyDict
    /\ processed' = <<>>
    /\ ret' = NoReturn
    /\ runs' = 0
    /\ UNCHANGED <<graph, nodes, node_keys, edges, executing, cancel, process, decided,
                   request, call, gate>>

NextAgain == Next \/ NewEngine

\* two requests to run the same graph, one after the other
SpecAgain == InitReuse /\ [][NextAgain]_vars

NextExec ==
    \E t \in Threads :
        \/ SaveStdout(t)
        \/ SaveStderr(t)
        \/ InstallStdout(t)
        \/ InstallStderr(t)
        \/ WriteOut(t)
        \/ TimeoutPasses(t)
        \/ ExecReturns(t)
        \/ ExecRaises(t)
        \/ RestoreStdout(t)
        \/ RestoreStderr(t)

\* concurrent calls of CodeExecAgent.run in one process
SpecExec == InitExec /\ [][NextExec]_vars

NextApi ==
    \/ ApiReadsConfig
    \/ ApiInterpolatesUrl
    \/ ApiInterpolatesHeader
    \/ ApiResponds
    \/ ApiUnsupportedMethod
    \/ ApiRaises

\* the run of one api_call node
SpecApi == InitApi /\ [][NextApi]_vars

\* the run of a conditional agent
SpecConditional == InitConditional /\ [][ConditionalRuns]_vars

\* the run of a data_transform agent
SpecTransform == InitTransform /\ [][TransformRuns]_vars

\* the resolution of one node's agent kind and config
SpecResolve == InitResolve /\ [][ResolvesAgent]_vars

\* a run in which every step that can be taken is taken in the end: run is
\* sequential code, and the agent called returns or raises
SpecTerminates == InitLoops /\ [][Next]_vars /\ WF_vars(Next)

\* concurrent requests of one user to run a workflow
SpecGate == InitGate /\ [][NextGate]_vars

\* an engine object whose run is called again after it returned
NextReuse == Next \/ Rerun

SpecReuse == InitReuse /\ [][NextReuse]_vars

-----------------------------------------------------------------------------
(* Graph notions the properties are stated with                            *)

\* the ids reachable from the ids in S over the edges es, S included
RECURSIVE ReachSet(_, _)
ReachSet(es, S) ==
    LET next == S \cup {es[k].target_id : k \in {j \in DOMAIN es : es[j].source_id \in S}}
    IN IF next = S THEN S ELSE ReachSet(es, next)

Successors(es, id) == {es[k].target_id : k \in {j \in DOMAIN es : es[j].source_id = id}}

\* the ids reachable from id over one edge or more
Below(es, id) == ReachSet(es, Successors(es, id))

HasCycle(es) == \E id \in EdgeIds(es) : id \in Below(es, id)

DanglingEdge == \E k \in DOMAIN edges :
                    edges[k].source_id \notin DOMAIN nodes \/ edges[k].target_id \notin DOMAIN nodes

DuplicateId == \E i, j \in DOMAIN graph.nodes : i # j /\ graph.nodes[i].id = graph.nodes[j].id

ConditionOnPlainEdge ==
    \E k \in DOMAIN edges :
        /\ edges[k].condition # ""
        /\ edges[k].source_id \in DOMAIN nodes
        /\ nodes[edges[k].source_id].agent_type # "conditional"

Before(order, a, b) ==
    \E i, j \in DOMAIN order : order[i] = a /\ order[j] = b /\ i < j

Returned == pc = "done" /\ ret.kind = "record"

-----------------------------------------------------------------------------
(* Properties of the ordering                                              *)

\* C1: for an acyclic graph whose edges all reference existing nodes, the
\* order computed by _topological_sort holds every node id exactly once (as
\* many ids as the graph has nodes) and puts the source of every edge before
\* its target.
C1_OrderIsTopological ==
    (pc = "loop" /\ ~HasCycle(edges) /\ ~DanglingEdge) =>
        /\ Len(execution_order) = Cardinality(DOMAIN nodes)
        /\ Range(execution_order) = DOMAIN nodes
        /\ NoDuplicates(execution_order)
        /\ \A k \in DOMAIN edges :
              Before(execution_order, edges[k].source_id, edges[k].target_id)

\* an acyclic graph of three nodes with as many edges as the bound allows, one
\* of them repeated, that is not ordered as its node list is
C1_Witness ==
    /\ pc = "loop" /\ ~HasCycle(edges) /\ ~DanglingEdge
    /\ Cardinality(DOMAIN nodes) = Len(NodeNames)
    /\ Len(edges) = MaxSortEdges
    /\ \E i, j \in DOMAIN edges : i # j /\ edges[i] = edges[j]
    /\ execution_order # node_keys

-----------------------------------------------------------------------------
(* Properties of graph validation                                          *)

\* C2: for a graph that contains a cycle, run returns a validation error and
\* no node runs: no node result is recorded, also for nodes outside the cycle.
C2_CycleRejected ==
    HasCycle(edges) =>
        /\ results = EmptyDict
        /\ pc = "done" => ret.kind = "validation_error"

\* C3: for a graph with an edge from or to an id that is no node, with two nodes
\* of the same id, or with a condition on an edge that leaves a node that is not
\* a conditional, run returns a validation error before any node runs and
\* leaves no partial execution state.
C3_InvalidGraphRejected ==
    (DanglingEdge \/ DuplicateId \/ ConditionOnPlainEdge) =>
        /\ results = EmptyDict
        /\ contexts = EmptyDict
        /\ pc \in {"done", "raised"} => ret.kind = "validation_error"

\* C4: run never lets an exception through to its caller, whatever the graph
\* and the input.
C4_NoExceptionLeavesRun == pc # "raised" /\ ret.kind # "exception"

-----------------------------------------------------------------------------
(* Properties of branch pruning                                            *)

\* the nodes without an incoming edge
Roots == {n \in DOMAIN nodes : \A k \in DOMAIN edges : edges[k].target_id # n}

\* the conditional nodes that were executed and completed in this run
TookBranch(c) ==
    /\ c \in DOMAIN results /\ c \in DOMAIN nodes
    /\ nodes[c].agent_type = "conditional"
    /\ results[c].status = "completed"

BranchOf(c) == results[c].output.branch

\* the outbound edges of c whose condition is not b
OtherEdges(c, b) ==
    {k \in DOMAIN edges : edges[k].source_id = c /\ edges[k].condition # b}

\* n can be reached from the roots, and only over an edge of c that is not b
OnlyThrough(n, c, b) ==
    /\ n \in ReachSet(edges, Roots)
    /\ n \notin ReachSet(Pick(edges, DOMAIN edges \ OtherEdges(c, b)), Roots)

\* C5: when a conditional node c was executed and took branch b, no node that
\* the roots reach only through outbound edges of c with another condition than
\* b has status completed.
C5_UntakenBranchNotCompleted ==
    \A c \in DOMAIN results :
        TookBranch(c) =>
            \A n \in DOMAIN results :
                OnlyThrough(n, c, BranchOf(c)) => results[n].status # "completed"

\* a run that returned after a conditional took a branch, skipped a node that is
\* reached only through the other branch and completed a node on the branch taken
C5_Witness ==
    /\ Returned
    /\ \E c \in DOMAIN results :
          /\ TookBranch(c)
          /\ \E n \in DOMAIN results :
                OnlyThrough(n, c, BranchOf(c)) /\ results[n].status = "skipped"
          /\ \E k \in DOMAIN edges :
                /\ edges[k].source_id = c /\ edges[k].condition = BranchOf(c)
                /\ edges[k].target_id \in DOMAIN results
                /\ results[edges[k].target_id].status = "completed"

\* C6: when a conditional c completes with branch b, the target of each of its
\* outbound edges with another condition, and every node below such a target
\* over edges of any condition, is recorded as skipped when the loop comes to
\* it, also when an executed node has an edge to it.
C6_PruningIsTransitive ==
    \A c \in DOMAIN results :
        TookBranch(c) =>
            \A k \in OtherEdges(c, BranchOf(c)) :
                \A n \in {edges[k].target_id} \cup Below(edges, edges[k].target_id) :
                    n \in Range(processed) => results[n].status = "skipped"

\* a node below the target of an untaken edge, not such a target itself, that
\* was skipped although a completed node has an edge to it
C6_Witness ==
    \E c \in DOMAIN results :
        /\ TookBranch(c)
        /\ \E k \in OtherEdges(c, BranchOf(c)) :
              \E n \in Below(edges, edges[k].target_id) :
                  /\ n \notin {edges[j].target_id : j \in OtherEdges(c, BranchOf(c))}
                  /\ n \in Range(processed)
                  /\ results[n].status = "skipped"
                  /\ \E j \in DOMAIN edges :
                        /\ edges[j].target_id = n
                        /\ edges[j].source_id \in DOMAIN results
                        /\ results[edges[j].source_id].status = "completed"

-----------------------------------------------------------------------------
(* Properties of failure handling                                          *)

\* the executed nodes that did not complete
Failed(n) == n \in DOMAIN results /\ results[n].status \in {"failed", "error"}

LaterInOrder(n) ==
    {execution_order[j] : j \in {i \in DOMAIN execution_order :
                                    \E h \in DOMAIN execution_order :
                                        execution_order[h] = n /\ h < i}}

\* C7: when an executed node with stop_on_failure true ends failed or in error,
\* the loop stops there: the run has returned with status failed and this node
\* as failed_node, and no node later in the execution order has a result.
C7_FailFast ==
    \A n \in DOMAIN results :
        (Failed(n) /\ n \in DOMAIN nodes /\ nodes[n].stop_on_failure) =>
            /\ Returned
            /\ ret.status = "failed"
            /\ ret.failed_node = n
            /\ \A m \in LaterInOrder(n) : m \notin DOMAIN results

\* a run stopped by a failing node that had nodes before it and after it
C7_Witness ==
    \E n \in DOMAIN results :
        /\ Failed(n) /\ n \in DOMAIN nodes /\ nodes[n].stop_on_failure
        /\ Returned
        /\ LaterInOrder(n) # {}
        /\ Len(processed) > 1

\* C8: when a node with stop_on_failure false returns success=false the engine
\* goes on with the next node, and no node with an edge from the failed node is
\* run with a context that has a key for it.
C8_NoContextFromFailedSource ==
    \A s \in DOMAIN results :
        (s \in DOMAIN nodes /\ results[s].status = "failed" /\ ~nodes[s].stop_on_failure) =>
            /\ pc = "done" => ret.failed_node # s
            /\ \A k \in DOMAIN edges :
                  (edges[k].source_id = s /\ edges[k].target_id \in DOMAIN contexts) =>
                      s \notin DOMAIN contexts[edges[k].target_id]

-----------------------------------------------------------------------------
(* Properties of the totals                                                *)

Completed == {n \in DOMAIN results : results[n].status = "completed"}

TokensOf == [n \in DOMAIN results |-> results[n].tokens_used]
CostOf == [n \in DOMAIN results |-> results[n].cost_usd]

\* C9 as stated: in every returned record total_tokens is the sum of
\* tokens_used over the completed nodes and total_cost_usd is the sum of their
\* cost_usd.
C9_TotalsAreSums ==
    Returned =>
        /\ ret.total_tokens = SumOver(Completed, TokensOf)
        /\ ret.total_cost_usd = SumOver(Completed, CostOf)

\* C9 amended: in every returned record total_tokens is the sum of tokens_used
\* over the completed nodes and total_cost_usd is the sum of their cost_usd
\* rounded to six decimal places; failed nodes add nothing.
C9_TotalsAreRoundedSums ==
    Returned =>
        /\ ret.total_tokens = SumOver(Completed, TokensOf)
        /\ ret.total_cost_usd = Round6(SumOver(Completed, CostOf))

\* a returned run with two completed nodes that used tokens and a failed node
C9_Witness ==
    /\ Returned
    /\ Cardinality({n \in Completed : results[n].tokens_used > 0}) > 1
    /\ \E n \in DOMAIN results : results[n].status = "failed"
    /\ ret.total_cost_usd # SumOver(Completed, CostOf)

\* the nodes the current run handled
ThisRun == Range(processed)

\* C10: the record of a run, also of a second run on the same engine object,
\* holds results only for the nodes that run handled, and its totals count only
\* what those nodes used.
C10_RunOwnsItsState ==
    Returned =>
        /\ DOMAIN results = ThisRun
        /\ ret.total_tokens = SumOver(ThisRun, TokensOf)
        /\ ret.total_cost_usd = Round6(SumOver(ThisRun, CostOf))

-----------------------------------------------------------------------------
(* Properties of the sequential loop                                       *)

\* the nodes whose handling has begun, in the order in which it began
Started == processed \o (IF pc = "call" THEN <<Current>> ELSE <<>>)

\* C11: when there is a path from a to b and the loop has come to both, a was
\* handled first: its agent call had returned and its result was recorded
\* before the agent call of b started; and at most one node is executing at
\* any time.
C11_AncestorFinishedFirst ==
    /\ Cardinality(executing) <= 1
    /\ executing = (IF pc = "call" THEN {Current} ELSE {})
    /\ \A a, b \in Range(Started) :
          b \in Below(edges, a) =>
              /\ Before(Started, a, b)
              /\ a \in Range(processed) /\ a \in DOMAIN results

\* the agent of the last node of a chain of three is being called, the two
\* nodes above it having been executed
C11_Witness ==
    /\ pc = "call"
    /\ \E a, m \in Range(processed) :
          /\ m \in Below(edges, a) /\ Current \in Below(edges, m)
          /\ results[a].status = "completed" /\ results[m].status = "completed"

-----------------------------------------------------------------------------
(* Properties of the tie-break                                             *)

PosIn(seq, x) == CHOOSE i \in DOMAIN seq : seq[i] = x

Predecessors(n) == {edges[k].source_id : k \in {j \in DOMAIN edges : edges[j].target_id = n}}

Emitted == Range(execution_order)

\* the emitted nodes that have an incoming edge
Released == {n \in Emitted : Predecessors(n) # {}}

Maximum(S) == CHOOSE x \in S : \A y \in S : y <= x

\* the place in the order of the node whose emission made n eligible: the
\* last emitted of the sources of n's incoming edges
ReleasedAt(n) == Maximum({PosIn(execution_order, s) : s \in Predecessors(n)})

\* the last of the edges from the node that made n eligible to n
ReleasingEdge(n) ==
    Maximum({k \in DOMAIN edges : /\ edges[k].target_id = n
                                  /\ edges[k].source_id = execution_order[ReleasedAt(n)]})

\* m and n are eligible at the same time: the sources of the incoming edges of
\* both are emitted before either of them
EligibleTogether(m, n) ==
    \A s \in Predecessors(m) \cup Predecessors(n) :
        /\ Before(execution_order, s, m)
        /\ Before(execution_order, s, n)

\* the outbound edges of an emitted node are followed in the order in which
\* they are declared: of two nodes made eligible by the same node, the one
\* whose releasing edge is declared first is emitted first
EdgesInDeclarationOrder ==
    \A m, n \in Released :
        (ReleasedAt(m) = ReleasedAt(n) /\ ReleasingEdge(m) < ReleasingEdge(n)) =>
            Before(execution_order, m, n)

\* C12 as stated: nodes that are eligible at the same time are emitted in the
\* order of the node list, and the outbound edges of an emitted node are
\* followed in declaration order.
C12_EligibleInNodeListOrder ==
    pc = "loop" =>
        /\ \A m, n \in Emitted :
              (EligibleTogether(m, n) /\ Before(node_keys, m, n)) =>
                  Before(execution_order, m, n)
        /\ EdgesInDeclarationOrder

\* C12 amended: the nodes without an incoming edge are emitted first, in the
\* order of the node list; the others are emitted in the order in which they
\* became eligible, and those made eligible by the same node in the
\* declaration order of that node's edges.
C12_QueueOrder ==
    pc = "loop" =>
        /\ SubSeq(execution_order, 1, Len(execution_order) - Cardinality(Released))
              = SelectSeq(node_keys, LAMBDA n : Predecessors(n) = {})
        /\ \A m, n \in Released :
              ReleasedAt(m) < ReleasedAt(n) => Before(execution_order, m, n)
        /\ EdgesInDeclarationOrder

\* two nodes made eligible by the same node and emitted in the order of its
\* edges, against the order of the node list, after two nodes without
\* incoming edges
C12_Witness ==
    /\ pc = "loop"
    /\ \E m, n \in Released :
          /\ ReleasedAt(m) = ReleasedAt(n) /\ ReleasingEdge(m) < ReleasingEdge(n)
          /\ Before(node_keys, n, m)
    /\ Len(execution_order) = Len(NodeNames)

-----------------------------------------------------------------------------
(* Properties of the record                                                *)

\* the completed node that comes last in the execution order
LastCompleted ==
    CHOOSE n \in Completed :
        \A m \in Completed : PosIn(execution_order, m) <= PosIn(execution_order, n)

\* C13: output_data of the record is the output of the completed node that
\* comes last in the execution order among the recorded results, and null when
\* no recorded node is completed; the output of a skipped, failed or error node
\* is never chosen.
C13_OutputIsLastCompleted ==
    Returned =>
        ret.output_data = (IF Completed = {} THEN OutNone
                           ELSE results[LastCompleted].output)

\* a record whose output is that of a completed node although a node recorded
\* after it did not complete, a completed node with another output coming
\* before it
C13_Witness ==
    /\ Returned
    /\ Completed # {}
    /\ results[result_keys[Len(result_keys)]].status # "completed"
    /\ \E n \in Completed : results[n].output # results[LastCompleted].output

-----------------------------------------------------------------------------
(* Properties of cancellation                                              *)

\* C14: once the cancellation signal is raised the node in progress finishes,
\* no further node starts, and the run ends with status failed (and a
\* cancellation error).
C14_CancellationStopsRun ==
    cancel.raised =>
        /\ Cardinality(DOMAIN contexts) <= cancel.calls
        /\ Returned => ret.status = "failed"

-----------------------------------------------------------------------------
(* Properties of code_exec calls                                           *)

\* C15: the call of a code_exec node is bounded by its configured timeout: when
\* the timeout passes the call is over, and it ends as a failure.
C15_TimeoutEndsCall ==
    \A t \in Threads :
        threads[t].overdue =>
            /\ ~At(t, "line39")
            /\ At(t, "returned") => ~threads[t].result.success

\* C16: under every interleaving of two code_exec calls each call's captured
\* stdout holds only what its own code printed, and once both calls have
\* returned sys.stdout and sys.stderr are the streams the process had before.
C16_CallsDoNotInterfere ==
    /\ \A t \in Threads :
          (At(t, "returned") /\ threads[t].result.success) => Range(threads[t].stdout) \subseteq {t}
    /\ (\A t \in Threads : At(t, "returned")) =>
          /\ sys_stdout = ProcessStdout
          /\ sys_stderr = ProcessStderr

-----------------------------------------------------------------------------
(* Properties of repeated runs                                             *)

Ended == pc \in {"done", "raised"}

\* the run at hand is a second run of the graph, with the input of the first
RanAgain == earlier.ran /\ Ended /\ input_data = earlier.input_data

StatusesOf(res) == [n \in DOMAIN res |-> res[n].status]

OutputsOf(res) == [n \in DOMAIN res |-> res[n].output]

\* every node of the graph is a conditional
AllDeterministic == \A n \in DOMAIN nodes : nodes[n].agent_type = "conditional"

-----------------------------------------------------------------------------
(* Properties of the inputs of a run                                       *)

\* C18: a run leaves its inputs as they were: when the api_call node has
\* returned, the headers mapping inside the node's config is what it was
\* before the call, also when templates were interpolated from the context.
C18_RunLeavesInputsUnchanged ==
    api.at = "returned" => objects[NodeHeaders] = api.config.headers

-----------------------------------------------------------------------------
(* Properties of the node results                                          *)

\* a graph that keeps the graph invariants the ordering depends on
ValidGraph == ~HasCycle(edges) /\ ~DanglingEdge

\* C19: in a run a node result is written once for each node the loop handles
\* and is never changed afterwards; when the loop runs to its end on a valid
\* graph, every node of the graph has its entry in node_results.
C19_ResultsWrittenOnce ==
    [][/\ \A n \in DOMAIN results : n \in DOMAIN results' /\ results'[n] = results[n]
       /\ processed' # processed =>
             \E n \in DOMAIN results' \ DOMAIN results :
                 /\ processed' = Append(processed, n)
                 /\ DOMAIN results' = DOMAIN results \cup {n}
       /\ processed' = processed => results' = results
       /\ (pc' = "done" /\ ret'.status = "completed" /\ ValidGraph) =>
             DOMAIN results' = DOMAIN nodes]_vars

\* a run of three nodes that went to the end of the loop, with a skipped node
\* and a node that did not complete among the entries
C19_Witness ==
    /\ Returned /\ ret.status = "completed" /\ ValidGraph
    /\ Cardinality(DOMAIN results) = Len(NodeNames)
    /\ \E n \in DOMAIN results : results[n].status = "skipped"
    /\ \E n \in DOMAIN results : Failed(n)

-----------------------------------------------------------------------------
(* Properties of degenerate graphs                                         *)

EmptyGraph == graph.nodes = <<>> /\ graph.edges = <<>>

\* C20: the run of an empty graph returns a record with status completed, no
\* node results, output_data null, zero totals and no failed node, and lets no
\* exception through.
C20_EmptyGraphCompletes ==
    EmptyGraph =>
        /\ pc # "raised"
        /\ results = EmptyDict
        /\ pc = "done" =>
              ret = [kind |-> "record", status |-> "completed", output_data |-> OutNone,
                     total_tokens |-> 0, total_cost_usd |-> 0, failed_node |-> NoNode]

\* the run of an empty graph on an input payload has returned
C20_Witness == EmptyGraph /\ Returned /\ Truthy(input_data)

-----------------------------------------------------------------------------
(* Properties of the context of a node                                     *)

\* the agent of s returned a result, success or not: s has a recorded output
HasOutput(s) == s \in DOMAIN results /\ results[s].status \in {"completed", "failed"}

\* the keys the context of n is to have
ContextKeysOf(n) ==
    {s \in Predecessors(n) : HasOutput(s)} \cup (IF Truthy(input_data) THEN {InputKey} ELSE {})

\* C21: the context passed to an executed node n holds the key input mapped to
\* the input payload when the payload is non-empty, one key s mapped to
\* context_store[s] for every edge s -> n whose source has a recorded output,
\* and no other key: none for a node that is not a direct predecessor of n.
C21_ContextIsInputAndPredecessors ==
    \A n \in DOMAIN contexts :
        /\ DOMAIN contexts[n] = ContextKeysOf(n)
        /\ Truthy(input_data) => contexts[n][InputKey] = input_data
        /\ \A s \in Predecessors(n) :
              HasOutput(s) => contexts[n][s] = context_store[s]

-----------------------------------------------------------------------------
(* Properties of exceptions inside the try block                           *)

\* the call of the agent of n ended with an exception
RunRaised(n) ==
    /\ n \in DOMAIN contexts
    /\ <<n, contexts[n]>> \in DOMAIN decided
    /\ IsException(decided[<<n, contexts[n]>>])

\* get_agent raised for n when the loop came to it
ConstructionRaised(n) ==
    /\ n \in Range(processed) /\ n \in DOMAIN nodes
    /\ results[n].status # "skipped"
    /\ GetAgentRaises(nodes[n].agent_type)

\* C22: when an exception escapes the construction of a node's agent (an
\* unknown agent kind) or the agent's run, the node is recorded with status
\* error; the run then stops with status failed and this node as failed_node
\* when the node's stop_on_failure is true, and goes on with the next node of
\* the order when it is false.
C22_ExceptionRecordedAsError ==
    /\ \A n \in DOMAIN nodes :
          (ConstructionRaised(n) \/ (RunRaised(n) /\ n \in Range(processed))) =>
              results[n].status = "error"
    /\ \A n \in DOMAIN results :
          results[n].status = "error" =>
              IF nodes[n].stop_on_failure
              THEN /\ Returned /\ ret.status = "failed" /\ ret.failed_node = n
                   /\ execution_order[pos] = n
              ELSE /\ PosIn(execution_order, n) < pos
                   /\ Returned => ret.failed_node # n

\* a conditional whose run raised and that does not stop the run, a node
\* executed after it, and then a node of an unknown kind that stopped the run
C22_Witness ==
    /\ Returned /\ ret.status = "failed"
    /\ \E a, b, c \in DOMAIN results :
          /\ RunRaised(a) /\ ~nodes[a].stop_on_failure /\ results[a].status = "error"
          /\ Before(processed, a, b) /\ results[b].status = "completed"
          /\ ConstructionRaised(c) /\ ret.failed_node = c

-----------------------------------------------------------------------------
(* Properties of a conditional without a matching edge                     *)

\* the conditional c completed and none of its outbound edges carries the
\* branch it took
NoMatchingEdge(c) ==
    /\ TookBranch(c)
    /\ \A k \in DOMAIN edges : edges[k].source_id = c => edges[k].condition # BranchOf(c)

\* C23: when a conditional completes and none of its outbound edges carries a
\* condition equal to the branch taken, no node downstream of it (no
\* transitive descendant) is executed, every such node the loop comes to is
\* recorded as skipped, and when the loop has run to its end on a valid graph
\* all of them are.
C23_NoMatchingEdgeSkipsAll ==
    \A c \in DOMAIN results :
        NoMatchingEdge(c) =>
            \A n \in Below(edges, c) :
                /\ n \notin DOMAIN contexts /\ n \notin executing
                /\ n \in DOMAIN results => results[n].status = "skipped"
                /\ n \in Range(processed) => n \in DOMAIN results
                /\ (Returned /\ ret.status = "completed" /\ ValidGraph) => n \in DOMAIN results

\* a conditional that took the branch "true" with an unlabelled edge and an
\* edge of the branch "false" only; the run returned with the two nodes
\* below it, one behind the other, skipped
C23_Witness ==
    /\ Returned /\ ret.status = "completed"
    /\ \E c \in DOMAIN results :
          /\ NoMatchingEdge(c) /\ BranchOf(c) = "true"
          /\ \E m, n \in Below(edges, c) :
                /\ n \in Successors(edges, m)
                /\ \E k \in DOMAIN edges : edges[k] = Edge(c, m, "")
                /\ \E k \in DOMAIN edges : edges[k] = Edge(c, n, "false")
                /\ results[m].status = "skipped" /\ results[n].status = "skipped"

-----------------------------------------------------------------------------
(* Properties of the agents' run                                           *)

\* C24: no agent's run raises to its caller: whatever the config and the
\* context, a failure inside run comes back as a result with success false
\* and a string as output.
C24_RunNeverRaises ==
    /\ call.at # "raised"
    /\ (call.at = "returned" /\ ~call.outcome.success) => ~call.outcome.output.isdict

\* C25: the conditional agent never returns success false because the kinds
\* of the extracted value and of the configured value do not fit: a
\* comparison that cannot be made gives condition_met false and the branch
\* "false".
C25_MismatchIsFalse ==
    (call.agent = "conditional" /\ call.at = "returned") =>
        /\ call.outcome.success
        /\ call.outcome.output.branch \in {"true", "false"}

-----------------------------------------------------------------------------
(* Properties of the transform operations                                  *)

TransformReturned == call.agent = "data_transform" /\ call.at = "returned"

\* the operation of the call and the data it works on
OperationOf(config) == Get(config, "operation", "passthrough")

KeyGiven(config, key) == key \in DOMAIN config /\ Truth(config[key])

\* a segment of the path is missing: a key absent from a mapping, an index past
\* the end of a sequence, or a segment applied to anything else
RECURSIVE SegmentMissing(_, _)
SegmentMissing(current, parts) ==
    IF parts = <<>> THEN FALSE
    ELSE IF current.kind = "mapping"
         THEN \/ Head(parts) \notin DOMAIN current.val
              \/ SegmentMissing(current.val[Head(parts)], Tail(parts))
    ELSE IF current.kind = "sequence" /\ isdigit(Head(parts))
         THEN \/ IntOf(Head(parts)) >= Len(current.val)
              \/ SegmentMissing(current.val[IntOf(Head(parts)) + 1], Tail(parts))
    ELSE TRUE

\* C26: extract_field gives null with success true whenever a segment of the
\* dotted path is missing: a key absent from a mapping, a segment applied to a
\* scalar, an all-digits segment that indexes past the end of a sequence.
C26_MissingSegmentGivesNull ==
    (/\ TransformReturned
     /\ OperationOf(call.config) = "extract_field"
     /\ ~KeyGiven(call.config, "input_key") /\ ~KeyGiven(call.config, "output_key")
     /\ "field" \in DOMAIN call.config /\ call.config.field.kind = "string"
     /\ SegmentMissing(call.context, Split(call.config.field.val))) =>
        /\ call.outcome.success
        /\ call.outcome.output = PyNone

\* C27: passthrough is the identity: without input_key and output_key the
\* output is the context, and with an output_key k it is the mapping with
\* the one entry k -> context.
C27_PassthroughIsIdentity ==
    (/\ TransformReturned
     /\ OperationOf(call.config) = "passthrough"
     /\ ~KeyGiven(call.config, "input_key")) =>
        /\ call.outcome.success
        /\ call.outcome.output =
              (IF KeyGiven(call.config, "output_key")
               THEN Map(call.config.output_key.val :> call.context)
               ELSE call.context)

\* a passthrough with an output_key has returned for a context that holds the
\* output of an upstream node
C27_Witness ==
    /\ TransformReturned
    /\ OperationOf(call.config) = "passthrough"
    /\ ~KeyGiven(call.config, "input_key") /\ KeyGiven(call.config, "output_key")
    /\ DOMAIN call.context.val # {}
    /\ call.outcome.success
    /\ call.outcome.output.val[call.config.output_key.val] = call.context

-----------------------------------------------------------------------------
(* Properties of the context store                                         *)

\* the mapping {output: value}
WrappedOutput(value) == [isdict |-> TRUE, branch |-> "", text |-> value.text, wrapped |-> TRUE,
            condition_met |-> FALSE]

\* C28: the output of every node whose agent returned a result is in the
\* context store, unchanged when it is a mapping and as the one-entry mapping
\* {output: value} otherwise, so that every value a node finds in its context
\* under the key of a source node is a mapping.
C28_StoredOutputIsMapping ==
    /\ \A n \in DOMAIN results :
          HasOutput(n) =>
              /\ n \in DOMAIN context_store
              /\ context_store[n] = (IF results[n].output.isdict THEN results[n].output
                                     ELSE WrappedOutput(results[n].output))
    /\ \A m \in DOMAIN contexts :
          \A s \in DOMAIN contexts[m] \ {InputKey} : contexts[m][s].isdict

\* a node run on the outputs of two predecessors: the mapping of a
\* conditional, handed on as it is, and the text of another node, wrapped
C28_Witness ==
    \E m \in DOMAIN contexts :
        \E a, b \in DOMAIN contexts[m] \ {InputKey} :
            /\ results[a].output.isdict /\ contexts[m][a] = results[a].output
            /\ ~results[b].output.isdict /\ contexts[m][b].wrapped
            /\ contexts[m][b].text = results[b].output.text

-----------------------------------------------------------------------------
(* Properties of the resolution of a node's agent                          *)

Resolved == call.agent = "engine" /\ call.at = "line 67"

\* the node names a kind of its own
KindSet(node) == "agent_type" \in DOMAIN node /\ node["agent_type"] # ""

\* the store has a definition under the id that the node names
DefinitionFound(node, agent_defs) ==
    "agent_def_id" \in DOMAIN node /\ node["agent_def_id"] \in DOMAIN agent_defs

\* C29: the agent kind used for a node is the node's own kind when it is set,
\* otherwise the kind of the definition found under the node's agent_def_id,
\* otherwise llm; with an agent_def_id that the store lacks the node is
\* resolved as one without a definition, and nothing is raised.
C29_KindIsOwnThenDefinitionThenLlm ==
    /\ call.agent = "engine" => call.at \in {"line 58", "line 67"}
    /\ Resolved =>
          LET node == call.node
              agent_defs == call.agent_defs
          IN call.outcome.agent_type =
                IF KindSet(node) THEN node["agent_type"]
                ELSE IF /\ DefinitionFound(node, agent_defs)
                        /\ "agent_type" \in DOMAIN agent_defs[node["agent_def_id"]]
                     THEN agent_defs[node["agent_def_id"]]["agent_type"]
                     ELSE "llm"

\* a node without a kind of its own got the kind of its definition; another
\* case of the same run is a node whose id the store lacks
C29_Witness ==
    /\ Resolved
    /\ ~KindSet(call.node)
    /\ DefinitionFound(call.node, call.agent_defs)
    /\ call.outcome.agent_type = "web_search"

\* C30: the config handed to the agent has every key of the definition's
\* config and of the node's overrides, with the node's value on a key of both
\* and the definition's value on the others.
C30_ConfigIsDefinitionOverlaidByNode ==
    Resolved =>
        LET node == call.node
            agent_defs == call.agent_defs
            defaults == IF /\ DefinitionFound(node, agent_defs)
                           /\ "config" \in DOMAIN agent_defs[node["agent_def_id"]]
                        THEN agent_defs[node["agent_def_id"]]["config"]
                        ELSE EmptyDict
            overrides == IF "config_overrides" \in DOMAIN node
                         THEN node["config_overrides"] ELSE EmptyDict
            config == call.outcome.config
        IN /\ DOMAIN config = DOMAIN defaults \cup DOMAIN overrides
           /\ \A k \in DOMAIN overrides : config[k] = overrides[k]
           /\ \A k \in DOMAIN defaults \ DOMAIN overrides : config[k] = defaults[k]

\* the definition and the node both give the model, and each a key of its own
C30_Witness ==
    /\ Resolved
    /\ DefinitionFound(call.node, call.agent_defs)
    /\ call.outcome.config =
          [model |-> "of node", temperature |-> "of def", url |-> "of node"]

-----------------------------------------------------------------------------
(* Properties of a conditional's result and of the skip set                *)

\* the targets of the outbound edges of c that are not of branch b, and all
\* that lies below them
OffBranch(c, b) ==
    UNION {{edges[k].target_id} \cup Below(edges, edges[k].target_id) :
              k \in {j \in DOMAIN edges : edges[j].source_id = c /\ EdgeBranch(edges[j]) # b}}

\* the step in which the call of the agent of node c returns and c is recorded
\* as completed
Completes(c) ==
    /\ pc = "call" /\ Current = c
    /\ processed' = Append(processed, c)
    /\ c \in DOMAIN results' /\ results'[c].status = "completed"

\* C31: the result of a conditional that succeeded has a branch that is "true"
\* or "false", "true" exactly when its condition_met is true, and in the step
\* that records it the skip set grows by what lies on the outbound edges of
\* another branch than that one, and by nothing else.
C31_BranchIsConditionMetAndPrunes ==
    [][\A c \in DOMAIN nodes :
          (Completes(c) /\ nodes[c].agent_type = "conditional") =>
              LET output == results'[c].output
              IN /\ output.isdict
                 /\ output.branch \in {"true", "false"}
                 /\ (output.branch = "true") <=> output.condition_met
                 /\ skipped_nodes' = skipped_nodes \cup OffBranch(c, output.branch)]_vars

\* a conditional whose condition was not met: the target of its "true" edge is
\* in the skip set and the target of its "false" edge is not
C31_Witness ==
    \E c \in DOMAIN results :
        /\ TookBranch(c)
        /\ ~results[c].output.condition_met /\ BranchOf(c) = "false"
        /\ \E k, j \in DOMAIN edges :
              /\ edges[k].source_id = c /\ edges[k].condition = "true"
              /\ edges[k].target_id \in skipped_nodes
              /\ edges[j].source_id = c /\ edges[j].condition = "false"
              /\ edges[j].target_id \notin skipped_nodes

\* the nodes that a conditional completed in this run has put off its branch
OffTakenBranches ==
    UNION {{edges[k].target_id} \cup Below(edges, edges[k].target_id) :
              k \in UNION {OtherEdges(c, BranchOf(c)) : c \in {d \in DOMAIN results : TookBranch(d)}}}

\* C33: a node recorded as skipped is the target of an outbound edge of a
\* conditional node that completed in this run, the edge's condition being
\* another than the branch taken, or lies below such a target; no step of a run
\* takes a node out of the skip set; and the skip set has every successor of
\* each of its nodes.
C33_SkippedOnlyOffBranchAndClosed ==
    [][/\ \A n \in DOMAIN results' :
             results'[n].status = "skipped" => n \in OffTakenBranches'
       /\ skipped_nodes \subseteq skipped_nodes'
       /\ \A k \in DOMAIN edges' :
             edges'[k].source_id \in skipped_nodes' => edges'[k].target_id \in skipped_nodes']_vars

\* two conditionals pruned one after the other: the skip set grew twice, and a
\* node two edges below a conditional was recorded as skipped
C33_Witness ==
    /\ Returned
    /\ \E c, d \in DOMAIN results :
          /\ c # d /\ TookBranch(c) /\ TookBranch(d)
          /\ OtherEdges(c, BranchOf(c)) # {} /\ OtherEdges(d, BranchOf(d)) # {}
    /\ \E k \in DOMAIN edges :
          /\ edges[k].source_id \in DOMAIN results /\ edges[k].target_id \in DOMAIN results
          /\ results[edges[k].source_id].status = "skipped"
          /\ results[edges[k].target_id].status = "skipped"

\* c is a conditional that was executed and did not succeed, and the run went on
FailedWithoutStopping(c) ==
    /\ c \in DOMAIN nodes /\ nodes[c].agent_type = "conditional"
    /\ Failed(c) /\ ~nodes[c].stop_on_failure

\* the targets of the "true" and "false" edges of c
BranchTargets(c) ==
    {edges[k].target_id :
        k \in {j \in DOMAIN edges : /\ edges[j].source_id = c
                                    /\ edges[j].condition \in {"true", "false"}}}

Executed(n) == n \in DOMAIN results /\ results[n].status \in {"completed", "failed", "error"}

\* the step in which node c is recorded as failed or in error
Fails(c) ==
    /\ c \notin DOMAIN results
    /\ c \in DOMAIN results' /\ results'[c].status \in {"failed", "error"}

\* C34: when a conditional returns success=false or raises and its
\* stop_on_failure is false, the step leaves the skip set as it was, and when
\* the run has returned the targets of its "true" and "false" edges have all
\* been executed.
C34_FailedConditionalTargetsExecuted ==
    [][/\ \A c \in DOMAIN nodes :
             (Fails(c) /\ nodes[c].agent_type = "conditional" /\ ~nodes[c].stop_on_failure) =>
                 skipped_nodes' = skipped_nodes
       /\ \A c \in DOMAIN results' :
             (FailedWithoutStopping(c)' /\ Returned') =>
                 \A t \in BranchTargets(c)' : Executed(t)']_vars

\* C34 as it holds: the step leaves the skip set as it was, and a target of a
\* "true" or "false" edge of the conditional is executed when the loop comes to
\* it, unless it lies off the branch taken by a conditional that completed.
C34_FailedConditionalPrunesNothing ==
    [][/\ \A c \in DOMAIN nodes :
             (Fails(c) /\ nodes[c].agent_type = "conditional" /\ ~nodes[c].stop_on_failure) =>
                 skipped_nodes' = skipped_nodes
       /\ \A c \in DOMAIN results' :
             FailedWithoutStopping(c)' =>
                 \A t \in (BranchTargets(c) \cap DOMAIN results)' :
                     t \notin OffTakenBranches' => Executed(t)']_vars

\* a conditional that did not succeed and has an edge of either branch: the
\* run went to its end and the targets of both edges were executed
C34_Witness ==
    /\ Returned /\ ret.status = "completed"
    /\ \E c \in DOMAIN results :
          /\ FailedWithoutStopping(c)
          /\ \E k, j \in DOMAIN edges :
                /\ edges[k].source_id = c /\ edges[k].condition = "true"
                /\ edges[j].source_id = c /\ edges[j].condition = "false"
                /\ edges[k].target_id # c /\ edges[j].target_id # c
                /\ Executed(edges[k].target_id) /\ Executed(edges[j].target_id)

\* C35: with a non-empty input payload, the context of every executed node
\* has the payload under the key input, also when a node with the id "input"
\* is a direct predecessor of the executed node.
C35_InputKeyHoldsPayload ==
    \A n \in DOMAIN contexts :
        Truthy(input_data) =>
            /\ InputKey \in DOMAIN contexts[n]
            /\ contexts[n][InputKey] = input_data

\* the outbound edges of c whose condition is the empty string
UnlabelledEdges(c) ==
    {k \in DOMAIN edges : edges[k].source_id = c /\ edges[k].condition = ""}

\* C36: after a conditional completed, with the branch "true" as with the
\* branch "false", the target of each of its outbound edges whose condition is
\* the empty string and every node below that target are in the skip set, none
\* of them is executed, and those that the loop came to are recorded as skipped.
C36_UnlabelledEdgeAlwaysPruned ==
    \A c \in DOMAIN results :
        (TookBranch(c) /\ BranchOf(c) \in {"true", "false"}) =>
            \A k \in UnlabelledEdges(c) :
                \A n \in {edges[k].target_id} \cup Below(edges, edges[k].target_id) :
                    /\ n \in skipped_nodes
                    /\ n \notin executing
                    /\ n \in Range(processed) => results[n].status = "skipped"

\* two conditionals, one that took "true" and one that took "false", each with
\* an unlabelled edge whose target was recorded as skipped
C36_Witness ==
    \E c, d \in DOMAIN results :
        /\ TookBranch(c) /\ BranchOf(c) = "true"
        /\ TookBranch(d) /\ BranchOf(d) = "false"
        /\ \E k \in UnlabelledEdges(c), j \in UnlabelledEdges(d) :
              /\ edges[k].target_id # edges[j].target_id
              /\ edges[k].target_id \in DOMAIN results
              /\ edges[j].target_id \in DOMAIN results
              /\ results[edges[k].target_id].status = "skipped"
              /\ results[edges[j].target_id].status = "skipped"

-----------------------------------------------------------------------------
(* Properties of the record that run returns                               *)

\* C32: in a record that run returned, the status is failed exactly when
\* failed_node names a node; that node is then the last one recorded in
\* node_results, its status there is failed or error, and its stop_on_failure
\* is true.
C32_FailedNodeIsLastRecorded ==
    Returned =>
        /\ ret.status \in {"completed", "failed"}
        /\ ret.status = "failed" <=> ret.failed_node # NoNode
        /\ ret.failed_node # NoNode =>
              /\ result_keys # <<>>
              /\ result_keys[Len(result_keys)] = ret.failed_node
              /\ results[ret.failed_node].status \in {"failed", "error"}
              /\ nodes[ret.failed_node].stop_on_failure

\* a run stopped by a node that raised, after a node that failed without
\* stopping the run
C32_Witness ==
    /\ Returned /\ ret.failed_node # NoNode
    /\ results[ret.failed_node].status = "error"
    /\ \E n \in DOMAIN results :
          n # ret.failed_node /\ results[n].status = "failed" /\ ~nodes[n].stop_on_failure

-----------------------------------------------------------------------------
(* Properties of nodes that were skipped or raised                         *)

NoOutput(n) == n \in DOMAIN results /\ results[n].status \in {"skipped", "error"}

\* C37: the step that records a node as skipped or in error leaves
\* total_tokens, the total cost and the context store as they were; such a
\* node has no entry in the context store, and the context of no node has a
\* key for it.
C37_SkippedAndErrorLeaveNothing ==
    [][/\ \A n \in DOMAIN results' \ DOMAIN results :
             results'[n].status \in {"skipped", "error"} =>
                 /\ total_tokens' = total_tokens
                 /\ total_cost' = total_cost
                 /\ context_store' = context_store
       /\ \A n \in DOMAIN results' :
             NoOutput(n)' =>
                 /\ n \notin DOMAIN context_store'
                 /\ \A m \in DOMAIN contexts' : n \notin DOMAIN contexts'[m]]_vars

\* a run with tokens spent and a payload, in which a node raised without
\* stopping the run, a node with an edge from it was executed, and a node was
\* skipped
C37_Witness ==
    /\ Returned /\ total_tokens > 0 /\ Truthy(input_data)
    /\ \E n \in DOMAIN results : results[n].status = "skipped"
    /\ \E k \in DOMAIN edges :
          /\ edges[k].source_id \in DOMAIN results
          /\ results[edges[k].source_id].status = "error"
          /\ edges[k].target_id \in DOMAIN contexts
          /\ Executed(edges[k].target_id)

-----------------------------------------------------------------------------
(* Termination                                                             *)

\* the ids of a graph: its nodes and the ends of its edges
AllIds == DOMAIN nodes \cup EdgeIds(edges)

RepeatedEdge == \E i, j \in DOMAIN edges : i # j /\ edges[i] = edges[j]

SelfLoop == \E k \in DOMAIN edges : edges[k].source_id = edges[k].target_id

\* C38: when every agent call returns, run ends, by returning or by raising,
\* on graphs with cycles, self-loops and repeated edges too: the Kahn loop has
\* emitted each id at most once, and the main loop has made one turn for each
\* id emitted at most.
C38_RunTerminates ==
    <>(/\ Ended
       /\ NoDuplicates(execution_order)
       /\ Range(execution_order) \subseteq AllIds
       /\ Len(processed) <= Len(execution_order)
       /\ pos <= Len(execution_order) + 1)

\* a run that ended on a graph with a repeated edge and a self-loop, after a
\* conditional pruned a node that lies on a cycle
C38_Witness ==
    /\ Ended
    /\ RepeatedEdge /\ SelfLoop /\ HasCycle(edges)
    /\ \E c \in DOMAIN results :
          /\ TookBranch(c)
          /\ \E n \in skipped_nodes : n \in Below(edges, n)

-----------------------------------------------------------------------------
(* Properties of the quota gate                                            *)

\* the handler of r calls the engine in this step
InvokesEngine(r) ==
    handlers[r].at = "line 104" /\ handlers'[r].at \in {"line 108", "500"}

\* the handler of r commits the usage of a run that returned in this step
CountsRun(r) == handlers[r].at = "line 120" /\ handlers'[r].at = "200"

\* C39: a handler invokes the engine only if the runs_this_month it checked was
\* below the limit, the commit that follows a run adds exactly one to
\* runs_this_month, and runs_this_month never exceeds the limit, however the
\* handlers of concurrent requests are interleaved.
C39_QuotaNeverExceeded ==
    [][/\ \A r \in Requests :
             /\ InvokesEngine(r) => handlers[r].runs_this_month < Limit
             /\ CountsRun(r) => runs_this_month' = runs_this_month + 1
       /\ runs_this_month' <= Limit]_vars

====
